---- MODULE Spec2Model ----
(***************************************************************************)
(* The renderer of the flowchart editor (src/unnamed/part_003, the latest  *)
(* revision of renderer.js) as a state machine: the module-level variables *)
(* of the renderer are the state, every DOM / IPC listener is one action.  *)
(*                                                                         *)
(* Numbers.  JavaScript numbers are modelled as fixed-point integers with  *)
(* Unit steps per canvas pixel, so that halves (width / 2, handleSize / 2) *)
(* and the text line height (fontSize * 1.2) are exact.  Angles are counted*)
(* in quarter turns (1 = pi/2); Math.atan2 is therefore only evaluated on  *)
(* points that lie on an axis through the centre.  A handler whose         *)
(* arithmetic leaves this grid (an inexact division, a NaN) clears the     *)
(* field "ok" of the state record; such inputs are outside the bounded     *)
(* input set and the action is not taken for them.                         *)
(*                                                                         *)
(* Objects.  Shape objects live in "heap", a function from references to   *)
(* records; "shapes" is the sequence of references that the array holds.   *)
(* selectedShape and editingTextShape are references (0 = null).  History  *)
(* snapshots, the redo stack and the clipboard hold clones that nothing    *)
(* else references, so they are stored by value.                           *)
(***************************************************************************)
EXTENDS Integers, Sequences, FiniteSets, TLC

VARIABLES
    shapes,              \* let shapes = []            (sequence of references)
    heap,                \* the shape objects that are still referenced
    history,             \* let history = []           (sequence of snapshots)
    redoStack,           \* let redoStack = []
    historyIndex,        \* let historyIndex = -1      (0-based, as in the code)
    selectedShape,       \* reference, 0 = null
    isDragging,
    dragOffsetX,
    dragOffsetY,
    currentShapeType,    \* the active tool
    currentColor,        \* "null" = no fill
    isDrawingLine,
    lineStartX,
    lineStartY,
    tempLineEndX,
    tempLineEndY,
    isResizing,
    isRotating,
    rotationStartAngle,  \* quarter turns
    shapeCenter,         \* << >> = null, << [x, y] >> otherwise
    zoomLevel,
    offsetX,
    offsetY,
    activeHandle,        \* "" = null
    activeTextInput,     \* << >> = null, << [x, y] >> = the textarea and its screen position
    editingTextShape,    \* reference, 0 = null
    initialMouseDownPos, \* << >> = null, << [x, y] >> otherwise
    clipboardShape,      \* << >> = null, << object >> otherwise
    imageDialogs,        \* outcomes of openImageDialog() that are still outstanding
    saveRequests,        \* the runs of the 'request-save-canvas' listener that await a port
    nextId,              \* the next value of Date.now() + Math.random()
    lastEvent            \* history variable: the listener that ran last and what it found

vars == << shapes, heap, history, redoStack, historyIndex, selectedShape, isDragging,
           dragOffsetX, dragOffsetY, currentShapeType, currentColor, isDrawingLine,
           lineStartX, lineStartY, tempLineEndX, tempLineEndY, isResizing, isRotating,
           rotationStartAngle, shapeCenter, zoomLevel, offsetX, offsetY, activeHandle,
           activeTextInput, editingTextShape, initialMouseDownPos, clipboardShape,
           imageDialogs, saveRequests, nextId, lastEvent >>

(***************************************************************************)
(* Bounds of the model                                                     *)
(***************************************************************************)
MaxShapes == 2
MaxHistory == 3
MaxTurns == 1
MaxDialogs == 1
MaxIds == 2

(***************************************************************************)
(* Program constants (lengths in Unit steps per pixel)                     *)
(***************************************************************************)
Unit == 4 * 5
handleSize == 8 * Unit
dragThreshold == 3 * Unit
rotationHandleOffset == 20 * Unit
defaultWidth == 100 * Unit
defaultHeight == 60 * Unit
defaultRadius == 40 * Unit
offsetAmount == 10 * Unit
tolerance == 5 * Unit
defaultFontSize == 16 * Unit
minFontSize == 4 * Unit
canvasWidth == 110 * Unit
canvasHeight == 90 * Unit
naturalSize == 40 * Unit

Null == 0
NoColor == "null"
Black == "#000000"
Red == "#ff0000"

Abs(n) == IF n < 0 THEN 0 - n ELSE n
Max(a, b) == IF a >= b THEN a ELSE b
Min(a, b) == IF a <= b THEN a ELSE b
SetMin(S) == CHOOSE m \in S : \A n \in S : m <= n

Pt(px, py) == [x |-> px, y |-> py]

\* cos and sin of q quarter turns
Quarter(q) == ((q % 4) + 4) % 4
Cos(q) == << 1, 0, -1, 0 >>[Quarter(q) + 1]
Sin(q) == << 0, 1, 0, -1 >>[Quarter(q) + 1]
\* Math.atan2(dy, dx) in quarter turns, for a point on an axis
Atan2Ok(dy, dx) == dx = 0 \/ dy = 0
Atan2(dy, dx) ==
    IF dy = 0 THEN (IF dx >= 0 THEN 0 ELSE 2)
    ELSE IF dy > 0 THEN 1 ELSE -1

(***************************************************************************)
(* Shape classes.  One record type carries the fields of every class; a     *)
(* field a class does not have keeps its default.  "angle" is << >> when   *)
(* the property has been deleted, "init" is << >> when the initial-geometry *)
(* properties of a resize gesture are not stored on the object, "load" is   *)
(* the loading state of an ImageShape's imageElement.                       *)
(***************************************************************************)
Shape(sx, sy, scolor, sid) ==
    [ type |-> "", x |-> sx, y |-> sy, color |-> scolor, angle |-> << 0 >>,
      flipH |-> FALSE, flipV |-> FALSE, id |-> sid,
      width |-> 0, height |-> 0, radius |-> 0,
      x1 |-> 0, y1 |-> 0, x2 |-> 0, y2 |-> 0, dx |-> 0, dy |-> 0,
      text |-> "", fontSize |-> 0, fontWeight |-> "normal",
      load |-> "none", init |-> << >> ]

Rectangle(rx, ry, w, h, rcolor, rid) ==
    [ Shape(rx, ry, rcolor, rid) EXCEPT
        !.width = Max(w, handleSize * 2), !.height = Max(h, handleSize * 2),
        !.type = "rectangle" ]

Circle(cx, cy, r, ccolor, cid) ==
    [ Shape(cx, cy, ccolor, cid) EXCEPT
        !.radius = Max(r, handleSize), !.type = "circle" ]

Diamond(rx, ry, w, h, dcolor, did) ==
    [ Shape(rx, ry, dcolor, did) EXCEPT
        !.width = Max(w, handleSize * 2), !.height = Max(h, handleSize * 2),
        !.type = "diamond" ]

Line(lx1, ly1, lx2, ly2, lcolor, lid) ==
    [ Shape(lx1, ly1, lcolor, lid) EXCEPT
        !.x1 = lx1, !.y1 = ly1, !.x2 = lx2, !.y2 = ly2, !.type = "line",
        !.dx = lx2 - lx1, !.dy = ly2 - ly1 ]

\* The contents a textarea can hold, split at "\n", and String.prototype.trim
Texts == { "", " ", "Hello", "Hi\nyou" }
SplitLines(t) == IF t = "Hi\nyou" THEN << "Hi", "you" >> ELSE << t >>
Trim(t) == IF t = " " THEN "" ELSE t
CharCount(line) ==
    CASE line = "" -> 0 [] line = " " -> 1 [] line = "Hello" -> 5
      [] line = "Hi" -> 2 [] line = "you" -> 3 [] OTHER -> 0
\* ctx.measureText(line).width: half the font size for every character
measureText(line, fontSize) == CharCount(line) * (fontSize \div 2)

RECURSIVE MaxLineWidth(_, _, _)
MaxLineWidth(lines, fontSize, k) ==
    IF k > Len(lines) THEN 0
    ELSE Max(measureText(lines[k], fontSize), MaxLineWidth(lines, fontSize, k + 1))

updateDimensionsOk(o) == (o.fontSize * 12) % 10 = 0 /\ o.fontSize % 2 = 0
updateDimensions(o) ==
    LET lines == SplitLines(o.text)
        lineHeight == (o.fontSize * 12) \div 10
    IN  [ o EXCEPT !.height = Len(lines) * lineHeight,
                   !.width = MaxLineWidth(lines, o.fontSize, 1) ]

Text(tx, ty, t, tcolor, tid) ==
    updateDimensions(
        [ Shape(tx, ty, IF tcolor = NoColor THEN Black ELSE tcolor, tid) EXCEPT
            !.text = t, !.fontSize = defaultFontSize, !.type = "text" ])

ImageShape(ix, iy, w, h, iid) ==
    [ Shape(ix, iy, NoColor, iid) EXCEPT
        !.width = Max(w, handleSize * 2), !.height = Max(h, handleSize * 2),
        !.type = "image", !.load = "loading" ]

\* Shape.clone and its overrides
clone(o) ==
    CASE o.type \in { "line", "text" } -> [ o EXCEPT !.angle = << >> ]
      [] o.type = "image" ->
            [ ImageShape(o.x, o.y, o.width, o.height, o.id) EXCEPT
                !.angle = o.angle, !.flipH = o.flipH, !.flipV = o.flipV ]
      [] OTHER -> o

getCenter(o) ==
    CASE o.type = "circle" -> Pt(o.x, o.y)
      [] o.type = "line" -> Pt(o.x, o.y)
      [] OTHER -> Pt(o.x + o.width \div 2, o.y + o.height \div 2)

\* The numbers of an object are on the fixed-point grid and the object lies on the canvas
OnCanvas(px, py) == px >= 0 /\ px <= canvasWidth /\ py >= 0 /\ py <= canvasHeight
Exact(o) ==
    /\ o.width % 2 = 0 /\ o.height % 2 = 0
    /\ CASE o.type = "line" -> OnCanvas(o.x1, o.y1) /\ OnCanvas(o.x2, o.y2)
         [] o.type = "circle" ->
                OnCanvas(o.x - o.radius, o.y - o.radius) /\ OnCanvas(o.x + o.radius, o.y + o.radius)
         [] OTHER -> OnCanvas(o.x, o.y) /\ OnCanvas(o.x + o.width, o.y + o.height)
    /\ o.angle # << >> => Abs(o.angle[1]) <= MaxTurns

(***************************************************************************)
(* Geometry: isInside, getHandles                                          *)
(***************************************************************************)
\* floor of the square root, by bisection
RECURSIVE ISqrtIn(_, _, _)
ISqrtIn(n, lo, hi) ==
    IF lo >= hi THEN lo
    ELSE LET mid == (lo + hi + 1) \div 2
         IN  IF mid * mid <= n THEN ISqrtIn(n, mid, hi) ELSE ISqrtIn(n, lo, mid - 1)
ISqrt(n) == ISqrtIn(n, 0, 40000)

\* LocalPoint without the translation to the centre: the mouse would be compared with
\* the half extents as if the shape were centred on the origin
LocalPointUntranslated(o, mouseX, mouseY) ==
    LET q == 0 - o.angle[1]
        scaleX == IF o.flipH THEN -1 ELSE 1
        scaleY == IF o.flipV THEN -1 ELSE 1
        translatedX == mouseX * scaleX
        translatedY == mouseY * scaleY
    IN  Pt(translatedX * Cos(q) - translatedY * Sin(q),
           translatedX * Sin(q) + translatedY * Cos(q))

\* Rectangle.isInside and ImageShape.isInside: translate, inverse flip, inverse
\* rotation, bounding box
LocalPoint(o, mouseX, mouseY) ==
    LET center == getCenter(o)
        q == 0 - o.angle[1]
        scaleX == IF o.flipH THEN -1 ELSE 1
        scaleY == IF o.flipV THEN -1 ELSE 1
        translatedX == (mouseX - center.x) * scaleX
        translatedY == (mouseY - center.y) * scaleY
    IN  Pt(translatedX * Cos(q) - translatedY * Sin(q),
           translatedX * Sin(q) + translatedY * Cos(q))

BoxIsInside(o, mouseX, mouseY) ==
    LET p == LocalPoint(o, mouseX, mouseY)
        halfW == o.width \div 2
        halfH == o.height \div 2
    IN  p.x >= 0 - halfW /\ p.x <= halfW /\ p.y >= 0 - halfH /\ p.y <= halfH

DiamondIsInside(o, mouseX, mouseY) ==
    LET p == LocalPoint(o, mouseX, mouseY)
        halfW == o.width \div 2
        halfH == o.height \div 2
    IN  /\ BoxIsInside(o, mouseX, mouseY)
        \* |x| / halfW + |y| / halfH <= 1, multiplied by halfW * halfH
        /\ Abs(p.x) * halfH + Abs(p.y) * halfW <= halfW * halfH

CircleIsInside(o, mouseX, mouseY) ==
    LET dx == mouseX - o.x
        dy == mouseY - o.y
    IN  dx * dx + dy * dy <= o.radius * o.radius

\* Line.isInside, computed in whole pixels: the distance of the mouse from the
\* closest point of the segment is at most tolerance
LineIsInside(o, mouseX, mouseY) ==
    LET ax == (mouseX - o.x1) \div Unit
        ay == (mouseY - o.y1) \div Unit
        dxL == (o.x2 - o.x1) \div Unit
        dyL == (o.y2 - o.y1) \div Unit
        tol == tolerance \div Unit
        lenSq == dxL * dxL + dyL * dyL
        dot == ax * dxL + ay * dyL
        cross == ax * dyL - ay * dxL
    IN  IF lenSq = 0 THEN ax * ax + ay * ay <= tol * tol
        ELSE IF dot <= 0 THEN ax * ax + ay * ay <= tol * tol
        ELSE IF dot >= lenSq
             THEN (ax - dxL) * (ax - dxL) + (ay - dyL) * (ay - dyL) <= tol * tol
        ELSE Abs(cross) <= ISqrt(tol * tol * lenSq)

TextIsInside(o, mouseX, mouseY) ==
    /\ mouseX >= o.x /\ mouseX <= o.x + o.width
    /\ mouseY >= o.y /\ mouseY <= o.y + o.height

isInside(o, mouseX, mouseY) ==
    CASE o.type = "rectangle" -> BoxIsInside(o, mouseX, mouseY)
      [] o.type = "image" -> BoxIsInside(o, mouseX, mouseY)
      [] o.type = "diamond" -> DiamondIsInside(o, mouseX, mouseY)
      [] o.type = "circle" -> CircleIsInside(o, mouseX, mouseY)
      [] o.type = "line" -> LineIsInside(o, mouseX, mouseY)
      [] OTHER -> TextIsInside(o, mouseX, mouseY)

\* The hit test of o at the mouse position stays on the grid
isInsideOk(o, mouseX, mouseY) ==
    CASE o.type = "line" ->
            \A c \in { o.x1, o.y1, o.x2, o.y2, mouseX, mouseY } : c % Unit = 0
      [] OTHER -> TRUE

HandleTypes ==
    << "top-left", "top-center", "top-right", "middle-left", "middle-right",
       "bottom-left", "bottom-center", "bottom-right", "rotation" >>

\* relX, relY of the unrotated handles, for half extents halfW, halfH
unrotatedHandles(halfW, halfH) ==
    << [relX |-> 0 - halfW, relY |-> 0 - halfH, type |-> "top-left"],
       [relX |-> 0,         relY |-> 0 - halfH, type |-> "top-center"],
       [relX |-> halfW,     relY |-> 0 - halfH, type |-> "top-right"],
       [relX |-> 0 - halfW, relY |-> 0,         type |-> "middle-left"],
       [relX |-> halfW,     relY |-> 0,         type |-> "middle-right"],
       [relX |-> 0 - halfW, relY |-> halfH,     type |-> "bottom-left"],
       [relX |-> 0,         relY |-> halfH,     type |-> "bottom-center"],
       [relX |-> halfW,     relY |-> halfH,     type |-> "bottom-right"],
       [relX |-> 0, relY |-> 0 - halfH - rotationHandleOffset, type |-> "rotation"] >>

\* getHandles without the adjustment for the handle size: the points would be the
\* corners and edge middles themselves
RotatedHandlesUncentred(o, halfW, halfH) ==
    LET center == getCenter(o)
        q == o.angle[1]
        scaleX == IF o.flipH THEN -1 ELSE 1
        scaleY == IF o.flipV THEN -1 ELSE 1
        un == unrotatedHandles(halfW, halfH)
    IN  [ k \in 1..Len(un) |->
            LET flippedX == un[k].relX * scaleX
                flippedY == un[k].relY * scaleY
                rotatedX == flippedX * Cos(q) - flippedY * Sin(q)
                rotatedY == flippedX * Sin(q) + flippedY * Cos(q)
            IN  [ x |-> center.x + rotatedX, y |-> center.y + rotatedY,
                  type |-> un[k].type ] ]

\* Rectangle / Circle / Diamond / ImageShape getHandles: flip, rotate, translate
RotatedHandles(o, halfW, halfH) ==
    LET center == getCenter(o)
        q == o.angle[1]
        handleOffset == handleSize \div 2
        scaleX == IF o.flipH THEN -1 ELSE 1
        scaleY == IF o.flipV THEN -1 ELSE 1
        un == unrotatedHandles(halfW, halfH)
    IN  [ k \in 1..Len(un) |->
            LET flippedX == un[k].relX * scaleX
                flippedY == un[k].relY * scaleY
                rotatedX == flippedX * Cos(q) - flippedY * Sin(q)
                rotatedY == flippedX * Sin(q) + flippedY * Cos(q)
            IN  [ x |-> center.x + rotatedX - handleOffset,
                  y |-> center.y + rotatedY - handleOffset,
                  type |-> un[k].type ] ]

TextHandles(o) ==
    LET handleOffset == handleSize \div 2
        w == o.width
        h == o.height
    IN  << [x |-> o.x - handleOffset, y |-> o.y - handleOffset, type |-> "top-left"],
           [x |-> o.x + w \div 2 - handleOffset, y |-> o.y - handleOffset, type |-> "top-center"],
           [x |-> o.x + w - handleOffset, y |-> o.y - handleOffset, type |-> "top-right"],
           [x |-> o.x - handleOffset, y |-> o.y + h \div 2 - handleOffset, type |-> "middle-left"],
           [x |-> o.x + w - handleOffset, y |-> o.y + h \div 2 - handleOffset, type |-> "middle-right"],
           [x |-> o.x - handleOffset, y |-> o.y + h - handleOffset, type |-> "bottom-left"],
           [x |-> o.x + w \div 2 - handleOffset, y |-> o.y + h - handleOffset, type |-> "bottom-center"],
           [x |-> o.x + w - handleOffset, y |-> o.y + h - handleOffset, type |-> "bottom-right"] >>

getHandles(o) ==
    CASE o.type \in { "rectangle", "diamond", "image" } ->
            RotatedHandles(o, o.width \div 2, o.height \div 2)
      [] o.type = "circle" -> RotatedHandles(o, o.radius, o.radius)
      [] o.type = "text" -> TextHandles(o)
      [] OTHER -> << >>

getHandlesOk(o) == o.type \in { "rectangle", "diamond", "image", "circle" } => o.angle # << >>

(***************************************************************************)
(* The state record: one field per variable of the renderer, and "ok".     *)
(* Every function of the renderer is an operator from state records to     *)
(* state records, so that a listener that calls several of them is their   *)
(* composition.                                                            *)
(***************************************************************************)
Cur ==
    [ shapes |-> shapes, heap |-> heap, history |-> history, redoStack |-> redoStack,
      historyIndex |-> historyIndex, selectedShape |-> selectedShape,
      isDragging |-> isDragging, dragOffsetX |-> dragOffsetX, dragOffsetY |-> dragOffsetY,
      currentShapeType |-> currentShapeType, currentColor |-> currentColor,
      isDrawingLine |-> isDrawingLine, lineStartX |-> lineStartX, lineStartY |-> lineStartY,
      tempLineEndX |-> tempLineEndX, tempLineEndY |-> tempLineEndY,
      isResizing |-> isResizing, isRotating |-> isRotating,
      rotationStartAngle |-> rotationStartAngle, shapeCenter |-> shapeCenter,
      zoomLevel |-> zoomLevel, offsetX |-> offsetX, offsetY |-> offsetY,
      activeHandle |-> activeHandle, activeTextInput |-> activeTextInput,
      editingTextShape |-> editingTextShape, initialMouseDownPos |-> initialMouseDownPos,
      clipboardShape |-> clipboardShape, imageDialogs |-> imageDialogs,
      saveRequests |-> saveRequests, nextId |-> nextId,
      ok |-> TRUE ]

\* The objects the array "shapes" holds, in order
Scene(s) == [ k \in 1..Len(s.shapes) |-> s.heap[s.shapes[k]] ]

\* shapes.map(shape => shape.clone())
CloneAll(scene) == [ k \in 1..Len(scene) |-> clone(scene[k]) ]

\* References that the program can still follow
Roots(s) ==
    ({ s.shapes[k] : k \in 1..Len(s.shapes) } \cup { s.selectedShape, s.editingTextShape }
        \cup { s.saveRequests[k].previouslySelected : k \in 1..Len(s.saveRequests) })
        \ { Null }
\* Garbage collection: objects nothing refers to leave the heap
Collect(s) == [ s EXCEPT !.heap = [ r \in Roots(s) |-> s.heap[r] ] ]

\* The k-th smallest reference that is not in use
RECURSIVE NthFree(_, _)
NthFree(used, k) ==
    LET r == SetMin((1..(Cardinality(used) + 1)) \ used)
    IN  IF k = 1 THEN r ELSE NthFree(used \cup { r }, k - 1)

\* new: the object o gets the next free reference
NewRef(s) == NthFree(DOMAIN s.heap, 1)
Alloc(s, o) == [ s EXCEPT !.heap = (NewRef(s) :> o) @@ s.heap, !.nextId = @ + 1 ]

\* this.id = Date.now() + Math.random(): a value that was never used before
NewId(s) == s.nextId

\* shapes = snapshot.map(shapeData => shapeData.clone()): every clone is a new object
Restore(s, snap) ==
    LET emptied == Collect([ s EXCEPT !.shapes = << >> ])
        refs == [ k \in 1..Len(snap) |-> NthFree(DOMAIN emptied.heap, k) ]
    IN  [ emptied EXCEPT
            !.shapes = refs,
            !.heap = [ r \in DOMAIN emptied.heap \cup { refs[k] : k \in 1..Len(snap) } |->
                         IF r \in DOMAIN emptied.heap THEN emptied.heap[r]
                         ELSE clone(snap[CHOOSE k \in 1..Len(snap) : refs[k] = r]) ] ]

(***************************************************************************)
(* Undo / redo                                                             *)
(***************************************************************************)
\* saveState without "redoStack = []": what was undone would stay redoable after a commit
saveStateKeepingRedo(s) ==
    [ s EXCEPT
        !.history = Append(SubSeq(s.history, 1, s.historyIndex + 1), CloneAll(Scene(s))),
        !.historyIndex = s.historyIndex + 1 ]

\* saveState without "history.push(currentState)": the cursor would leave the history
saveStateWithoutPush(s) ==
    [ s EXCEPT
        !.redoStack = << >>,
        !.history = SubSeq(s.history, 1, s.historyIndex + 1),
        !.historyIndex = s.historyIndex + 1 ]

saveState(s) ==
    [ s EXCEPT
        !.redoStack = << >>,
        !.history = Append(SubSeq(s.history, 1, s.historyIndex + 1), CloneAll(Scene(s))),
        !.historyIndex = s.historyIndex + 1 ]

\* undo without "selectedShape = null"
undoKeepingSelection(s) ==
    IF s.historyIndex <= 0 THEN s
    ELSE LET pushed == [ s EXCEPT !.redoStack = Append(s.redoStack, CloneAll(Scene(s))),
                                  !.historyIndex = s.historyIndex - 1 ]
         IN  Restore(pushed, pushed.history[pushed.historyIndex + 1])

undo(s) ==
    IF s.historyIndex <= 0 THEN s
    ELSE LET pushed == [ s EXCEPT !.redoStack = Append(s.redoStack, CloneAll(Scene(s))),
                                  !.historyIndex = s.historyIndex - 1,
                                  !.selectedShape = Null ]
         IN  Restore(pushed, pushed.history[pushed.historyIndex + 1])

\* redo without its early return: an empty redo stack would commit the scene again
redoWithoutGuard(s) ==
    IF Len(s.redoStack) = 0 THEN saveState(s)
    ELSE LET nextState == s.redoStack[Len(s.redoStack)]
             moved == [ s EXCEPT
                          !.history = Append(SubSeq(s.history, 1, s.historyIndex + 1),
                                             CloneAll(Scene(s))),
                          !.historyIndex = s.historyIndex + 1,
                          !.redoStack = SubSeq(s.redoStack, 1, Len(s.redoStack) - 1),
                          !.selectedShape = Null ]
         IN  Restore(moved, nextState)

redo(s) ==
    IF Len(s.redoStack) = 0 THEN s
    ELSE LET nextState == s.redoStack[Len(s.redoStack)]
             moved == [ s EXCEPT
                          !.history = Append(SubSeq(s.history, 1, s.historyIndex + 1),
                                             CloneAll(Scene(s))),
                          !.historyIndex = s.historyIndex + 1,
                          !.redoStack = SubSeq(s.redoStack, 1, Len(s.redoStack) - 1),
                          !.selectedShape = Null ]
         IN  Restore(moved, nextState)

(***************************************************************************)
(* Copy / paste                                                            *)
(***************************************************************************)
handleCopyCanvas(s) ==
    IF s.selectedShape # Null
    THEN [ s EXCEPT !.clipboardShape = << clone(s.heap[s.selectedShape]) >> ]
    ELSE [ s EXCEPT !.clipboardShape = << >> ]

\* handlePasteCanvas without "newShape.id = Date.now() + Math.random()"
handlePasteCanvasKeepingId(s) ==
    IF s.clipboardShape # << >>
    THEN LET cloned == clone(s.clipboardShape[1])
             moved == [ cloned EXCEPT !.x = @ + offsetAmount, !.y = @ + offsetAmount ]
             newShape == IF moved.type = "line"
                         THEN [ moved EXCEPT !.x1 = @ + offsetAmount, !.y1 = @ + offsetAmount,
                                             !.x2 = @ + offsetAmount, !.y2 = @ + offsetAmount ]
                         ELSE moved
             ref == NewRef(s)
             added == Alloc(s, newShape)
         IN  saveState([ added EXCEPT !.shapes = Append(s.shapes, ref),
                                      !.selectedShape = ref ])
    ELSE s

handlePasteCanvas(s) ==
    IF s.clipboardShape # << >>
    THEN LET cloned == clone(s.clipboardShape[1])
             moved == [ cloned EXCEPT !.x = @ + offsetAmount, !.y = @ + offsetAmount ]
             newShape == IF moved.type = "line"
                         THEN [ moved EXCEPT !.x1 = @ + offsetAmount, !.y1 = @ + offsetAmount,
                                             !.x2 = @ + offsetAmount, !.y2 = @ + offsetAmount,
                                             !.id = NewId(s) ]
                         ELSE [ moved EXCEPT !.id = NewId(s) ]
             ref == NewRef(s)
             added == Alloc(s, newShape)
         IN  saveState([ added EXCEPT !.shapes = Append(s.shapes, ref),
                                      !.selectedShape = ref ])
    ELSE s

(***************************************************************************)
(* View transform and tools                                                *)
(***************************************************************************)
\* getMousePos: screen coordinates (relative to the canvas) to canvas coordinates
getMousePosOk(s, screenX, screenY) ==
    /\ ((screenX - s.offsetX) * s.zoomLevel.d) % s.zoomLevel.n = 0
    /\ ((screenY - s.offsetY) * s.zoomLevel.d) % s.zoomLevel.n = 0
getMousePos(s, screenX, screenY) ==
    Pt(((screenX - s.offsetX) * s.zoomLevel.d) \div s.zoomLevel.n,
       ((screenY - s.offsetY) * s.zoomLevel.d) \div s.zoomLevel.n)

\* canvasX * zoomLevel + offsetX
toScreenOk(s, canvasX, canvasY) ==
    (canvasX * s.zoomLevel.n) % s.zoomLevel.d = 0 /\ (canvasY * s.zoomLevel.n) % s.zoomLevel.d = 0
toScreen(s, canvasX, canvasY) ==
    Pt((canvasX * s.zoomLevel.n) \div s.zoomLevel.d + s.offsetX,
       (canvasY * s.zoomLevel.n) \div s.zoomLevel.d + s.offsetY)

\* triggerImageSelection up to its first await: openImageDialog() is outstanding
triggerImageSelection(s) ==
    [ s EXCEPT !.imageDialogs = [ @ EXCEPT !.dialog = @ + 1 ] ]

setActiveTool(s, toolType) ==
    LET s1 == [ s EXCEPT !.currentShapeType = toolType ]
        s2 == IF toolType # "default" \/ s1.selectedShape # Null
              THEN [ s1 EXCEPT !.selectedShape = Null ] ELSE s1
        s3 == IF s2.isDrawingLine /\ toolType # "line"
              THEN [ s2 EXCEPT !.isDrawingLine = FALSE ] ELSE s2
        s4 == IF s3.isResizing
              THEN [ s3 EXCEPT !.isResizing = FALSE, !.activeHandle = "" ] ELSE s3
        s5 == IF s4.isRotating
              THEN [ s4 EXCEPT !.isRotating = FALSE, !.activeHandle = "" ] ELSE s4
    IN  IF toolType = "image" THEN triggerImageSelection(s1) ELSE s5

(***************************************************************************)
(* mousedown                                                               *)
(***************************************************************************)
\* Array.prototype.indexOf, 1-based, 0 when absent
IndexOf(seq, r) ==
    IF \E k \in 1..Len(seq) : seq[k] = r
    THEN SetMin({ k \in 1..Len(seq) : seq[k] = r }) ELSE 0

RemoveAt(seq, k) == SubSeq(seq, 1, k - 1) \o SubSeq(seq, k + 1, Len(seq))

\* Bringing to front without "shapeIndex !== -1": for a selection outside the scene
\* splice(-1, 1) would remove the last shape and push would add the selection
bringToFrontOfAbsent(s) ==
    LET shapeIndex == IndexOf(s.shapes, s.selectedShape)
    IN  IF shapeIndex < Len(s.shapes)
        THEN [ s EXCEPT !.shapes =
                 Append(RemoveAt(s.shapes, IF shapeIndex = 0 THEN Len(s.shapes)
                                           ELSE shapeIndex),
                        s.selectedShape) ]
        ELSE s

\* shapes.splice(shapeIndex, 1); shapes.push(selectedShape)
bringToFront(s) ==
    LET shapeIndex == IndexOf(s.shapes, s.selectedShape)
    IN  IF shapeIndex # 0 /\ shapeIndex < Len(s.shapes)
        THEN [ s EXCEPT !.shapes = Append(RemoveAt(s.shapes, shapeIndex), s.selectedShape) ]
        ELSE s

InHandle(h, mouseX, mouseY) ==
    /\ mouseX >= h.x /\ mouseX <= h.x + handleSize
    /\ mouseY >= h.y /\ mouseY <= h.y + handleSize

getHandleAt(s, mouseX, mouseY) ==
    IF s.selectedShape = Null THEN ""
    ELSE LET handles == getHandles(s.heap[s.selectedShape])
             hit == { k \in 1..Len(handles) : InHandle(handles[k], mouseX, mouseY) }
         IN  IF hit = { } THEN "" ELSE handles[SetMin(hit)].type

\* for (let i = shapes.length - 1; i >= 0; i--) if (shape.isInside(...)) ... break
TopmostAt(s, mouseX, mouseY, types) ==
    LET hit == { k \in 1..Len(s.shapes) :
                    /\ s.heap[s.shapes[k]].type \in types
                    /\ isInside(s.heap[s.shapes[k]], mouseX, mouseY) }
    IN  IF hit = { } THEN 0 ELSE CHOOSE k \in hit : \A j \in hit : j <= k

ShapeTypes == { "rectangle", "circle", "diamond", "line", "text", "image" }
\* The tools that make a shape with one click
ShapeTools == { "rectangle", "circle", "diamond" }

HitTestsOk(s, mouseX, mouseY) ==
    \A k \in 1..Len(s.shapes) : isInsideOk(s.heap[s.shapes[k]], mouseX, mouseY)

\* Priority 1, rotation handle
startRotating(s, mouseX, mouseY) ==
    LET center == getCenter(s.heap[s.selectedShape])
        dx == mouseX - center.x
        dy == mouseY - center.y
    IN  [ s EXCEPT !.isRotating = TRUE, !.isResizing = FALSE,
                   !.shapeCenter = << center >>,
                   !.rotationStartAngle = Atan2(dy, dx),
                   !.ok = s.ok /\ Atan2Ok(dy, dx) ]

\* Priority 1, resize handle: the initial geometry is stored on the shape
startResizing(s, mouseX, mouseY) ==
    LET o == s.heap[s.selectedShape]
        initial == [ x |-> o.x, y |-> o.y, width |-> o.width, height |-> o.height,
                     radius |-> o.radius, angle |-> o.angle, center |-> getCenter(o),
                     mouseX |-> mouseX, mouseY |-> mouseY,
                     fontSize |-> IF o.type = "text" THEN o.fontSize ELSE 0 ]
    IN  [ s EXCEPT !.isResizing = TRUE, !.isRotating = FALSE,
                   !.heap[s.selectedShape] = [ o EXCEPT !.init = << initial >> ] ]

\* finishTextInput without the test of text.trim()
finishTextInputAddingBlank(s, addShape, text) ==
    IF s.activeTextInput = << >> THEN s
    ELSE
    LET s1 ==
          IF s.editingTextShape # Null
          THEN LET e == s.editingTextShape
               IN  IF addShape
                   THEN saveState(
                          [ s EXCEPT !.heap[e] = updateDimensions([ s.heap[e] EXCEPT !.text = text ]),
                                     !.shapes = Append(s.shapes, e),
                                     !.selectedShape = e,
                                     !.ok = s.ok /\ updateDimensionsOk(s.heap[e]) ])
                   ELSE [ s EXCEPT !.shapes = Append(s.shapes, e), !.selectedShape = e ]
          ELSE IF addShape
               THEN LET pos == s.activeTextInput[1]
                        c == getMousePos(s, pos.x, pos.y)
                        newTextShape == Text(c.x, c.y, text, s.currentColor, NewId(s))
                        ref == NewRef(s)
                    IN  saveState([ Alloc(s, newTextShape) EXCEPT
                                      !.shapes = Append(s.shapes, ref),
                                      !.selectedShape = ref,
                                      !.ok = s.ok /\ getMousePosOk(s, pos.x, pos.y) ])
               ELSE s
    IN  [ s1 EXCEPT !.activeTextInput = << >>, !.editingTextShape = Null ]

\* finishTextInput(activeTextInput, addShape); text is the textarea's value
finishTextInput(s, addShape, text) ==
    IF s.activeTextInput = << >> THEN s
    ELSE
    LET s1 ==
          IF s.editingTextShape # Null
          THEN LET e == s.editingTextShape
               IN  IF addShape /\ Trim(text) # ""
                   THEN saveState(
                          [ s EXCEPT !.heap[e] = updateDimensions([ s.heap[e] EXCEPT !.text = text ]),
                                     !.shapes = Append(s.shapes, e),
                                     !.selectedShape = e,
                                     !.ok = s.ok /\ updateDimensionsOk(s.heap[e]) ])
                   ELSE [ s EXCEPT !.shapes = Append(s.shapes, e), !.selectedShape = e ]
          ELSE IF addShape /\ Trim(text) # ""
               THEN LET pos == s.activeTextInput[1]
                        c == getMousePos(s, pos.x, pos.y)
                        newTextShape == Text(c.x, c.y, text, s.currentColor, NewId(s))
                        ref == NewRef(s)
                    IN  saveState([ Alloc(s, newTextShape) EXCEPT
                                      !.shapes = Append(s.shapes, ref),
                                      !.selectedShape = ref,
                                      !.ok = s.ok /\ getMousePosOk(s, pos.x, pos.y) ])
               ELSE s
    IN  [ s1 EXCEPT !.activeTextInput = << >>, !.editingTextShape = Null ]

\* startTextInput: the textarea is placed at the screen position of the click
startTextInput(s, canvasX, canvasY) ==
    LET s1 == IF s.activeTextInput # << >> THEN finishTextInput(s, FALSE, "") ELSE s
    IN  [ s1 EXCEPT !.activeTextInput = << toScreen(s1, canvasX, canvasY) >>,
                    !.ok = s1.ok /\ toScreenOk(s1, canvasX, canvasY) ]

startTextInputForEditing(s, shapeToEdit) ==
    LET s1 == IF s.activeTextInput # << >> THEN finishTextInput(s, FALSE, "") ELSE s
        o == s1.heap[shapeToEdit]
    IN  [ s1 EXCEPT !.editingTextShape = shapeToEdit,
                    !.activeTextInput = << toScreen(s1, o.x, o.y) >>,
                    !.ok = s1.ok /\ toScreenOk(s1, o.x, o.y) ]

\* clickBackground placing the new shape with its corner, not its centre, at the click
clickBackgroundAtCorner(s, mouseX, mouseY) ==
    LET s1 == [ s EXCEPT !.initialMouseDownPos = << >>, !.selectedShape = Null ]
        tool == s1.currentShapeType
        newShape ==
            CASE tool = "rectangle" ->
                    << Rectangle(mouseX, mouseY, defaultWidth, defaultHeight,
                                 s1.currentColor, NewId(s1)) >>
              [] tool = "circle" ->
                    << Circle(mouseX, mouseY, defaultRadius, s1.currentColor, NewId(s1)) >>
              [] tool = "diamond" ->
                    << Diamond(mouseX, mouseY, defaultWidth, defaultHeight,
                               s1.currentColor, NewId(s1)) >>
              [] OTHER -> << >>
    IN  IF tool \notin { "line", "default", "text" }
        THEN IF newShape # << >>
             THEN setActiveTool(
                      saveState([ Alloc(s1, newShape[1]) EXCEPT
                                    !.shapes = Append(s1.shapes, NewRef(s1)) ]),
                      "default")
             ELSE s1
        ELSE IF tool = "text" /\ s1.activeTextInput = << >>
             THEN startTextInput(s1, mouseX, mouseY)
        ELSE s1

\* Priority 4: click on the background
clickBackground(s, mouseX, mouseY) ==
    LET s1 == [ s EXCEPT !.initialMouseDownPos = << >>, !.selectedShape = Null ]
        shapeX == mouseX - defaultWidth \div 2
        shapeY == mouseY - defaultHeight \div 2
        tool == s1.currentShapeType
        newShape ==
            CASE tool = "rectangle" ->
                    << Rectangle(shapeX, shapeY, defaultWidth, defaultHeight,
                                 s1.currentColor, NewId(s1)) >>
              [] tool = "circle" ->
                    << Circle(mouseX, mouseY, defaultRadius, s1.currentColor, NewId(s1)) >>
              [] tool = "diamond" ->
                    << Diamond(shapeX, shapeY, defaultWidth, defaultHeight,
                               s1.currentColor, NewId(s1)) >>
              [] OTHER -> << >>
    IN  IF tool \notin { "line", "default", "text" }
        THEN IF newShape # << >>
             THEN setActiveTool(
                      saveState([ Alloc(s1, newShape[1]) EXCEPT
                                    !.shapes = Append(s1.shapes, NewRef(s1)) ]),
                      "default")
             ELSE s1
        ELSE IF tool = "text" /\ s1.activeTextInput = << >>
             THEN startTextInput(s1, mouseX, mouseY)
        ELSE s1

mousedown(s, mouseX, mouseY) ==
    LET s0 == [ s EXCEPT !.isDragging = FALSE, !.isResizing = FALSE, !.isRotating = FALSE,
                         !.activeHandle = "", !.shapeCenter = << >>,
                         !.initialMouseDownPos = << Pt(mouseX, mouseY) >> ]
        handle == getHandleAt(s0, mouseX, mouseY)
        clicked == TopmostAt(s0, mouseX, mouseY, ShapeTypes)
    IN  IF s0.selectedShape # Null /\ handle # ""
        THEN LET s1 == bringToFront([ s0 EXCEPT !.activeHandle = handle,
                                                !.initialMouseDownPos = << >> ])
             IN  IF handle = "rotation" THEN startRotating(s1, mouseX, mouseY)
                 ELSE startResizing(s1, mouseX, mouseY)
        ELSE IF s0.currentShapeType = "line"
        THEN [ s0 EXCEPT !.initialMouseDownPos = << >>, !.isDrawingLine = TRUE,
                         !.lineStartX = mouseX, !.lineStartY = mouseY,
                         !.tempLineEndX = mouseX, !.tempLineEndY = mouseY,
                         !.selectedShape = Null ]
        ELSE IF clicked # 0
        THEN bringToFront([ s0 EXCEPT !.selectedShape = s0.shapes[clicked],
                                      !.activeHandle = "", !.isResizing = FALSE,
                                      !.isRotating = FALSE,
                                      !.ok = s0.ok /\ HitTestsOk(s0, mouseX, mouseY) ])
        ELSE clickBackground([ s0 EXCEPT !.ok = s0.ok /\ HitTestsOk(s0, mouseX, mouseY) ],
                             mouseX, mouseY)

(***************************************************************************)
(* mousemove                                                               *)
(***************************************************************************)
\* Math.sqrt(dx * dx + dy * dy) * zoomLevel > dragThreshold
\* that is dx * dx + dy * dy > (dragThreshold / zoomLevel)^2, with the integer part of
\* the square computed from quotient and remainder so that no product leaves 32 bits
OverThreshold(s, dx, dy) ==
    LET n == s.zoomLevel.n
        q == (dragThreshold * s.zoomLevel.d) \div n
        r == (dragThreshold * s.zoomLevel.d) % n
    IN  dx * dx + dy * dy > q * q + (2 * q * r * n + r * r) \div (n * n)

\* Initiate dragging
initiateDrag(s, mouseX, mouseY) ==
    IF /\ s.selectedShape # Null /\ ~s.isDragging /\ ~s.isResizing /\ ~s.isRotating
       /\ s.initialMouseDownPos # << >>
       /\ OverThreshold(s, mouseX - s.initialMouseDownPos[1].x,
                           mouseY - s.initialMouseDownPos[1].y)
    THEN LET o == s.heap[s.selectedShape]
         IN  IF o.type = "line"
             THEN [ s EXCEPT !.isDragging = TRUE,
                             !.dragOffsetX = mouseX - o.x1, !.dragOffsetY = mouseY - o.y1,
                             !.heap[s.selectedShape] =
                                 [ o EXCEPT !.dx = o.x2 - o.x1, !.dy = o.y2 - o.y1 ] ]
             ELSE [ s EXCEPT !.isDragging = TRUE,
                             !.dragOffsetX = mouseX - o.x, !.dragOffsetY = mouseY - o.y ]
    ELSE s

\* A rotation step that would set the angle to the pointer's angle instead of adding
\* the change since the last step
rotateStepAbsolute(s, mouseX, mouseY) ==
    LET o == s.heap[s.selectedShape]
        dx == mouseX - s.shapeCenter[1].x
        dy == mouseY - s.shapeCenter[1].y
        currentAngle == Atan2(dy, dx)
    IN  [ s EXCEPT !.heap[s.selectedShape] =
                        [ o EXCEPT !.angle = IF o.angle = << >> THEN << >>
                                             ELSE << currentAngle >> ],
                   !.rotationStartAngle = currentAngle,
                   !.ok = s.ok /\ Atan2Ok(dy, dx) /\ o.angle # << >> ]

rotateStep(s, mouseX, mouseY) ==
    LET o == s.heap[s.selectedShape]
        dx == mouseX - s.shapeCenter[1].x
        dy == mouseY - s.shapeCenter[1].y
        currentAngle == Atan2(dy, dx)
        angleDelta == currentAngle - s.rotationStartAngle
    IN  [ s EXCEPT !.heap[s.selectedShape] =
                        [ o EXCEPT !.angle = IF o.angle = << >> THEN << >>
                                             ELSE << o.angle[1] + angleDelta >> ],
                   !.rotationStartAngle = currentAngle,
                   !.ok = s.ok /\ Atan2Ok(dy, dx) /\ o.angle # << >> ]

\* resizeBox without Math.max(minSize, ...): a box could shrink below 2 * handleSize
resizeBoxUnclamped(i, handle, tX, tY) ==
    LET wLeft == i.x + i.width - tX
        wRight == tX - i.x
        hTop == i.y + i.height - tY
        hBottom == tY - i.y
    IN  CASE handle = "top-left" ->
                [ w |-> wLeft, h |-> hTop, x |-> i.x + i.width - wLeft,
                  y |-> i.y + i.height - hTop ]
          [] handle = "top-center" ->
                [ w |-> i.width, h |-> hTop, x |-> i.x, y |-> i.y + i.height - hTop ]
          [] handle = "top-right" ->
                [ w |-> wRight, h |-> hTop, x |-> i.x, y |-> i.y + i.height - hTop ]
          [] handle = "middle-left" ->
                [ w |-> wLeft, h |-> i.height, x |-> i.x + i.width - wLeft, y |-> i.y ]
          [] handle = "middle-right" ->
                [ w |-> wRight, h |-> i.height, x |-> i.x, y |-> i.y ]
          [] handle = "bottom-left" ->
                [ w |-> wLeft, h |-> hBottom, x |-> i.x + i.width - wLeft, y |-> i.y ]
          [] handle = "bottom-center" ->
                [ w |-> i.width, h |-> hBottom, x |-> i.x, y |-> i.y ]
          [] handle = "bottom-right" ->
                [ w |-> wRight, h |-> hBottom, x |-> i.x, y |-> i.y ]
          [] OTHER -> [ w |-> i.width, h |-> i.height, x |-> i.x, y |-> i.y ]

\* The switch over activeHandle: new x, y, width, height from the mouse position in the
\* shape's initial unrotated frame
\* A resize whose left and top handles would put the position at the pointer instead of
\* re-anchoring it on the opposite side
resizeBoxUnanchored(i, handle, tX, tY) ==
    LET minSize == handleSize * 2
        left == handle \in { "top-left", "middle-left", "bottom-left" }
        right == handle \in { "top-right", "middle-right", "bottom-right" }
        top == handle \in { "top-left", "top-center", "top-right" }
        bottom == handle \in { "bottom-left", "bottom-center", "bottom-right" }
    IN  [ w |-> IF left THEN Max(minSize, i.x + i.width - tX)
                ELSE IF right THEN Max(minSize, tX - i.x) ELSE i.width,
          h |-> IF top THEN Max(minSize, i.y + i.height - tY)
                ELSE IF bottom THEN Max(minSize, tY - i.y) ELSE i.height,
          x |-> IF left THEN tX ELSE i.x,
          y |-> IF top THEN tY ELSE i.y ]

resizeBox(i, handle, tX, tY) ==
    LET minSize == handleSize * 2
        wLeft == Max(minSize, i.x + i.width - tX)
        wRight == Max(minSize, tX - i.x)
        hTop == Max(minSize, i.y + i.height - tY)
        hBottom == Max(minSize, tY - i.y)
    IN  CASE handle = "top-left" ->
                [ w |-> wLeft, h |-> hTop, x |-> i.x + i.width - wLeft,
                  y |-> i.y + i.height - hTop ]
          [] handle = "top-center" ->
                [ w |-> i.width, h |-> hTop, x |-> i.x, y |-> i.y + i.height - hTop ]
          [] handle = "top-right" ->
                [ w |-> wRight, h |-> hTop, x |-> i.x, y |-> i.y + i.height - hTop ]
          [] handle = "middle-left" ->
                [ w |-> wLeft, h |-> i.height, x |-> i.x + i.width - wLeft, y |-> i.y ]
          [] handle = "middle-right" ->
                [ w |-> wRight, h |-> i.height, x |-> i.x, y |-> i.y ]
          [] handle = "bottom-left" ->
                [ w |-> wLeft, h |-> hBottom, x |-> i.x + i.width - wLeft, y |-> i.y ]
          [] handle = "bottom-center" ->
                [ w |-> i.width, h |-> hBottom, x |-> i.x, y |-> i.y ]
          [] handle = "bottom-right" ->
                [ w |-> wRight, h |-> hBottom, x |-> i.x, y |-> i.y ]
          [] OTHER -> [ w |-> i.width, h |-> i.height, x |-> i.x, y |-> i.y ]

Includes(handle, part) ==
    CASE part = "left" -> handle \in { "top-left", "middle-left", "bottom-left" }
      [] part = "right" -> handle \in { "top-right", "middle-right", "bottom-right" }
      [] part = "top" -> handle \in { "top-left", "top-center", "top-right" }
      [] OTHER -> handle \in { "bottom-left", "bottom-center", "bottom-right" }

\* The arithmetic of a resize step stays on the grid: the initial angle is a number, a
\* text's scaled font size is exact
resizeStepOk(o, i, handle, n) ==
    /\ i.angle # << >>
    /\ o.type = "text" /\ i.height > 0 =>
          LET initialFontSize == IF i.fontSize = 0 THEN defaultFontSize ELSE i.fontSize
          IN  /\ (initialFontSize * n.h) % i.height = 0
              /\ updateDimensionsOk(
                    [ o EXCEPT !.fontSize =
                        Max(minFontSize, (initialFontSize * n.h) \div i.height) ])
    /\ o.type = "circle" =>
          \E part \in { "left", "right", "top", "bottom" } : Includes(handle, part)

resizeStep(s, mouseX, mouseY) ==
    LET o == s.heap[s.selectedShape]
        i == o.init[1]
        q == IF i.angle = << >> THEN 0 ELSE 0 - i.angle[1]
        localX == mouseX - i.center.x
        localY == mouseY - i.center.y
        transformedMouseX == localX * Cos(q) - localY * Sin(q) + i.center.x
        transformedMouseY == localX * Sin(q) + localY * Cos(q) + i.center.y
        n == resizeBox(i, s.activeHandle, transformedMouseX, transformedMouseY)
        boxed == [ o EXCEPT !.width = n.w, !.height = n.h, !.x = n.x, !.y = n.y ]
        texted ==
            IF o.type = "text"
            THEN LET initialFontSize == IF i.fontSize = 0 THEN defaultFontSize ELSE i.fontSize
                     sized == IF i.height > 0
                              THEN [ boxed EXCEPT !.fontSize =
                                       Max(minFontSize, (initialFontSize * n.h) \div i.height) ]
                              ELSE boxed
                 IN  [ updateDimensions(sized) EXCEPT !.x = n.x, !.y = n.y ]
            ELSE boxed
        circled ==
            IF o.type = "circle"
            THEN LET dx == transformedMouseX - i.center.x
                     dy == transformedMouseY - i.center.y
                     newRadius ==
                         IF Includes(s.activeHandle, "left") \/ Includes(s.activeHandle, "right")
                         THEN Abs(dx)
                         ELSE Abs(dy)
                 IN  [ texted EXCEPT !.radius = Max((handleSize * 2) \div 2, newRadius),
                                     !.x = i.center.x, !.y = i.center.y ]
            ELSE texted
    IN  [ s EXCEPT !.heap[s.selectedShape] = circled,
                   !.ok = s.ok /\ resizeStepOk(o, i, s.activeHandle, n) ]

\* A drag step that would commit a snapshot on every move
dragStepThenSave(s, mouseX, mouseY) ==
    LET o == s.heap[s.selectedShape]
        newX == mouseX - s.dragOffsetX
        newY == mouseY - s.dragOffsetY
    IN  IF o.type = "line"
        THEN saveState([ s EXCEPT !.heap[s.selectedShape] =
                 [ o EXCEPT !.x1 = newX, !.y1 = newY, !.x2 = newX + o.dx, !.y2 = newY + o.dy,
                            !.x = newX, !.y = newY ] ])
        ELSE saveState([ s EXCEPT !.heap[s.selectedShape] = [ o EXCEPT !.x = newX, !.y = newY ] ])

dragStep(s, mouseX, mouseY) ==
    LET o == s.heap[s.selectedShape]
        newX == mouseX - s.dragOffsetX
        newY == mouseY - s.dragOffsetY
    IN  IF o.type = "line"
        THEN [ s EXCEPT !.heap[s.selectedShape] =
                 [ o EXCEPT !.x1 = newX, !.y1 = newY, !.x2 = newX + o.dx, !.y2 = newY + o.dy,
                            !.x = newX, !.y = newY ] ]
        ELSE [ s EXCEPT !.heap[s.selectedShape] = [ o EXCEPT !.x = newX, !.y = newY ] ]

mousemove(s, mouseX, mouseY) ==
    LET s1 == initiateDrag(s, mouseX, mouseY)
    IN  IF s1.isRotating /\ s1.selectedShape # Null /\ s1.shapeCenter # << >>
        THEN rotateStep(s1, mouseX, mouseY)
        ELSE IF /\ s1.isResizing /\ s1.selectedShape # Null /\ s1.activeHandle # ""
                /\ s1.heap[s1.selectedShape].init # << >>
        THEN resizeStep(s1, mouseX, mouseY)
        ELSE IF s1.isDragging /\ s1.selectedShape # Null
        THEN dragStep(s1, mouseX, mouseY)
        ELSE IF s1.isDrawingLine
        THEN [ s1 EXCEPT !.tempLineEndX = mouseX, !.tempLineEndY = mouseY ]
        ELSE s1

(***************************************************************************)
(* mouseup and mouseleave                                                  *)
(***************************************************************************)
endRotating(s) ==
    IF s.isRotating
    THEN [ s EXCEPT !.isRotating = FALSE, !.activeHandle = "", !.shapeCenter = << >> ]
    ELSE s

endResizing(s) ==
    IF s.isResizing
    THEN [ s EXCEPT !.isResizing = FALSE, !.activeHandle = "",
                    !.heap = IF s.selectedShape # Null
                             THEN [ s.heap EXCEPT ![s.selectedShape].init = << >> ]
                             ELSE s.heap ]
    ELSE s

endDragging(s) == IF s.isDragging THEN [ s EXCEPT !.isDragging = FALSE ] ELSE s

\* Finalize line drawing; "changed" is stateChanged so far
endDrawingLine(s, mouseX, mouseY, changed) ==
    IF s.isDrawingLine
    THEN LET added == s.lineStartX # mouseX \/ s.lineStartY # mouseY
             newLine == Line(s.lineStartX, s.lineStartY, mouseX, mouseY, s.currentColor,
                             NewId(s))
             s1 == IF added
                   THEN [ Alloc(s, newLine) EXCEPT !.shapes = Append(s.shapes, NewRef(s)) ]
                   ELSE s
             s2 == [ s1 EXCEPT !.isDrawingLine = FALSE ]
         IN  IF changed \/ added THEN setActiveTool(s2, "default") ELSE s2
    ELSE s

mouseup(s, mouseX, mouseY) ==
    LET stateChanged ==
            \/ s.isRotating \/ s.isResizing \/ s.isDragging
            \/ (s.isDrawingLine /\ (s.lineStartX # mouseX \/ s.lineStartY # mouseY))
        s1 == endDrawingLine(endDragging(endResizing(endRotating(s))), mouseX, mouseY,
                             s.isRotating \/ s.isResizing \/ s.isDragging)
        s2 == IF stateChanged THEN saveState(s1) ELSE s1
        \* the fake mousemove is dispatched, and handled, before the handler goes on
        s3 == IF stateChanged \/ s2.selectedShape # Null
              THEN mousemove(s2, mouseX, mouseY)
              ELSE s2
    IN  [ s3 EXCEPT !.initialMouseDownPos = << >> ]

\* mouseleave without "isDragging = false": a drag would survive leaving the canvas
mouseleaveKeepingDrag(s) ==
    LET s1 == IF s.isDrawingLine THEN [ s EXCEPT !.isDrawingLine = FALSE ] ELSE s
        s3 == IF s1.isResizing
              THEN [ s1 EXCEPT !.isResizing = FALSE, !.activeHandle = "" ]
              ELSE s1
        s4 == IF s3.isRotating
              THEN [ s3 EXCEPT !.isRotating = FALSE, !.activeHandle = "",
                               !.shapeCenter = << >> ]
              ELSE s3
    IN  [ s4 EXCEPT !.initialMouseDownPos = << >> ]

mouseleave(s) ==
    LET s1 == IF s.isDrawingLine THEN [ s EXCEPT !.isDrawingLine = FALSE ] ELSE s
        s2 == IF s1.isDragging THEN [ s1 EXCEPT !.isDragging = FALSE ] ELSE s1
        s3 == IF s2.isResizing
              THEN [ s2 EXCEPT !.isResizing = FALSE, !.activeHandle = "" ]
              ELSE s2
        s4 == IF s3.isRotating
              THEN [ s3 EXCEPT !.isRotating = FALSE, !.activeHandle = "",
                               !.shapeCenter = << >> ]
              ELSE s3
    IN  [ s4 EXCEPT !.initialMouseDownPos = << >> ]

(***************************************************************************)
(* Other listeners                                                         *)
(***************************************************************************)
dblclick(s, mouseX, mouseY) ==
    IF s.activeTextInput # << >> THEN s
    ELSE LET clicked == TopmostAt(s, mouseX, mouseY, { "text" })
         IN  IF clicked # 0
             THEN startTextInputForEditing(
                      [ s EXCEPT !.shapes = RemoveAt(s.shapes, clicked),
                                 !.selectedShape = Null ],
                      s.shapes[clicked])
             ELSE s

\* The keydown listener without its "if (activeTextInput) return"
keydownDeleteWhileTyping(s) ==
    IF s.selectedShape # Null
    THEN LET index == IndexOf(s.shapes, s.selectedShape)
         IN  saveState([ s EXCEPT
                 !.shapes = IF index # 0 THEN RemoveAt(s.shapes, index) ELSE s.shapes,
                 !.selectedShape = Null,
                 !.isDrawingLine = FALSE, !.isResizing = FALSE, !.activeHandle = "",
                 !.isRotating = FALSE, !.shapeCenter = << >>, !.isDragging = FALSE ])
    ELSE s

\* document keydown with key Delete or Backspace
keydownDelete(s) ==
    IF s.activeTextInput # << >> THEN s
    ELSE IF s.selectedShape # Null
    THEN LET index == IndexOf(s.shapes, s.selectedShape)
         IN  saveState([ s EXCEPT
                 !.shapes = IF index # 0 THEN RemoveAt(s.shapes, index) ELSE s.shapes,
                 !.selectedShape = Null,
                 !.isDrawingLine = FALSE, !.isResizing = FALSE, !.activeHandle = "",
                 !.isRotating = FALSE, !.shapeCenter = << >>, !.isDragging = FALSE ])
    ELSE s

colorPickerInput(s, newColor) ==
    LET s1 == [ s EXCEPT !.currentColor = newColor ]
    IN  IF s1.selectedShape # Null /\ s1.heap[s1.selectedShape].type # "line"
        THEN saveState([ s1 EXCEPT !.heap[s1.selectedShape].color = newColor ])
        ELSE s1

removeColorClick(s) ==
    IF s.selectedShape # Null /\ s.heap[s.selectedShape].type # "line"
    THEN saveState([ s EXCEPT !.heap[s.selectedShape].color = NoColor,
                              !.currentColor = NoColor ])
    ELSE s

\* The click listener of boldButton
boldButtonClick(s) ==
    IF s.selectedShape # Null /\ s.heap[s.selectedShape].type = "text"
    THEN LET o == s.heap[s.selectedShape]
             bolded == [ o EXCEPT !.fontWeight = IF o.fontWeight = "bold" THEN "normal"
                                                 ELSE "bold" ]
         IN  saveState([ s EXCEPT !.heap[s.selectedShape] = updateDimensions(bolded) ])
    ELSE s

\* The flip listeners with saveState() after the modification: the snapshot would hold
\* the flipped shape
flipButtonClickThenSave(s, field) ==
    IF s.selectedShape # Null
    THEN LET o == s.heap[s.selectedShape]
         IN  saveState([ s EXCEPT !.heap[s.selectedShape] =
                 IF field = "flipH" THEN [ o EXCEPT !.flipH = ~o.flipH ]
                 ELSE [ o EXCEPT !.flipV = ~o.flipV ] ])
    ELSE s

\* The click listeners of flipHorizontalButton ("flipH") and flipVerticalButton ("flipV"):
\* saveState() runs before the modification
flipButtonClick(s, field) ==
    IF s.selectedShape # Null
    THEN LET s1 == saveState(s)
             o == s1.heap[s1.selectedShape]
         IN  [ s1 EXCEPT !.heap[s1.selectedShape] =
                 IF field = "flipH" THEN [ o EXCEPT !.flipH = ~o.flipH ]
                 ELSE [ o EXCEPT !.flipV = ~o.flipV ] ]
    ELSE s

\* The 'request-save-canvas' listener up to its first await: the selection is put aside
\* and saveDialog() is outstanding
onRequestSave(s) ==
    [ s EXCEPT !.saveRequests = Append(@, [ previouslySelected |-> s.selectedShape,
                                            awaiting |-> "saveDialog" ]),
               !.selectedShape = Null ]

\* The "finally" block of the k-th run of the listener: selectedShape = previouslySelected
saveFinally(s, k) ==
    [ s EXCEPT !.selectedShape = s.saveRequests[k].previouslySelected,
               !.saveRequests = RemoveAt(s.saveRequests, k) ]

\* The k-th run after "await saveDialog(...)": with a file chosen, the canvas is encoded
\* and writeFile() is outstanding; with the dialog cancelled or the call rejected, the
\* run ends
saveDialogAnswered(s, k, chosen) ==
    IF chosen THEN [ s EXCEPT !.saveRequests[k].awaiting = "writeFile" ]
    ELSE saveFinally(s, k)

\* The k-th run after "await writeFile(...)": success, failure and rejection differ in
\* what is logged and alerted only
writeFileAnswered(s, k) == saveFinally(s, k)

\* triggerImageSelection after the await: the dialog was cancelled, failed or was rejected
imageSelectionFailed(s) ==
    setActiveTool([ s EXCEPT !.imageDialogs = [ @ EXCEPT !.dialog = @ - 1 ] ], "default")

\* triggerImageSelection after the await, success: tempImg starts to decode
imageSelectionSucceeded(s) ==
    [ s EXCEPT !.imageDialogs = [ @ EXCEPT !.dialog = @ - 1, !.decode = @ + 1 ] ]

\* tempImg.onload
tempImgOnload(s) ==
    LET viewCenter == getMousePos(s, canvasWidth \div 2, canvasHeight \div 2)
        imgX == viewCenter.x - naturalSize \div 2
        imgY == viewCenter.y - naturalSize \div 2
        newImageShape == ImageShape(imgX, imgY, naturalSize, naturalSize, NewId(s))
        ref == NewRef(s)
        s1 == [ Alloc(s, newImageShape) EXCEPT
                  !.shapes = Append(s.shapes, ref), !.selectedShape = ref,
                  !.imageDialogs = [ @ EXCEPT !.decode = @ - 1 ],
                  !.ok = s.ok /\ getMousePosOk(s, canvasWidth \div 2, canvasHeight \div 2) ]
    IN  setActiveTool(saveState(s1), "default")

\* tempImg.onerror
tempImgOnerror(s) ==
    setActiveTool([ s EXCEPT !.imageDialogs = [ @ EXCEPT !.decode = @ - 1 ] ], "default")

\* imageElement.onerror without "this.isLoading = false"
imageElementSettledStillLoading(s, place, outcome) ==
    LET Settle(o) ==
            [ o EXCEPT !.load =
                IF outcome = "load"
                THEN (IF @ \in { "loading", "loaded" } THEN "loaded" ELSE "loaded+error")
                ELSE (IF @ = "error" THEN "error" ELSE @ \o "+error") ]
    IN  CASE place[1] = "heap" -> [ s EXCEPT !.heap[place[2]] = Settle(@) ]
          [] place[1] = "history" -> [ s EXCEPT !.history[place[2]][place[3]] = Settle(@) ]
          [] place[1] = "redoStack" -> [ s EXCEPT !.redoStack[place[2]][place[3]] = Settle(@) ]
          [] OTHER -> [ s EXCEPT !.clipboardShape[1] = Settle(@) ]

\* imageElement.onload and imageElement.onerror of an ImageShape: the arrow functions
\* write the flags of their own ImageShape (this) and redraw.  The object is one of the
\* heap, or a clone held by a snapshot of the history or of the redo stack or by the
\* clipboard.  onload sets isLoaded and clears isLoading, onerror clears isLoading and
\* sets loadError; "load" names the flags that are set.
imageElementSettled(s, place, outcome) ==
    LET Settle(o) ==
            [ o EXCEPT !.load =
                IF outcome = "load"
                THEN (IF @ \in { "loading", "loaded" } THEN "loaded" ELSE "loaded+error")
                ELSE (IF @ \in { "loading", "error" } THEN "error" ELSE "loaded+error") ]
    IN  CASE place[1] = "heap" -> [ s EXCEPT !.heap[place[2]] = Settle(@) ]
          [] place[1] = "history" -> [ s EXCEPT !.history[place[2]][place[3]] = Settle(@) ]
          [] place[1] = "redoStack" -> [ s EXCEPT !.redoStack[place[2]][place[3]] = Settle(@) ]
          [] OTHER -> [ s EXCEPT !.clipboardShape[1] = Settle(@) ]

(***************************************************************************)
(* The state machine                                                       *)
(***************************************************************************)
\* The state once the script has run to its end: saveState() of the empty scene,
\* setActiveTool('default')
Init ==
    /\ shapes = << >>
    /\ heap = << >>
    /\ history = << << >> >>
    /\ redoStack = << >>
    /\ historyIndex = 0
    /\ selectedShape = Null
    /\ isDragging = FALSE
    /\ dragOffsetX = 0
    /\ dragOffsetY = 0
    /\ currentShapeType = "default"
    /\ currentColor = NoColor
    /\ isDrawingLine = FALSE
    /\ lineStartX = 0
    /\ lineStartY = 0
    /\ tempLineEndX = 0
    /\ tempLineEndY = 0
    /\ isResizing = FALSE
    /\ isRotating = FALSE
    /\ rotationStartAngle = 0
    /\ shapeCenter = << >>
    /\ zoomLevel = [ n |-> 1, d |-> 1 ]
    /\ offsetX = 0
    /\ offsetY = 0
    /\ activeHandle = ""
    /\ activeTextInput = << >>
    /\ editingTextShape = Null
    /\ initialMouseDownPos = << >>
    /\ clipboardShape = << >>
    /\ imageDialogs = [ dialog |-> 0, decode |-> 0 ]
    /\ saveRequests = << >>
    /\ nextId = 1
    /\ lastEvent = [ name |-> "load", gesture |-> FALSE ]

\* One of the four gesture flags is set
GestureActive(s) == s.isDrawingLine \/ s.isDragging \/ s.isResizing \/ s.isRotating

\* Values that no listener reads before it assigns them again: the drag offset while
\* nothing is dragged, the line's start and preview end while no line is drawn, the
\* rotation start angle while nothing is rotated.  They are kept at 0.
Forget(s) ==
    [ s EXCEPT !.dragOffsetX = IF s.isDragging THEN @ ELSE 0,
               !.dragOffsetY = IF s.isDragging THEN @ ELSE 0,
               !.lineStartX = IF s.isDrawingLine THEN @ ELSE 0,
               !.lineStartY = IF s.isDrawingLine THEN @ ELSE 0,
               !.tempLineEndX = IF s.isDrawingLine THEN @ ELSE 0,
               !.tempLineEndY = IF s.isDrawingLine THEN @ ELSE 0,
               !.rotationStartAngle = IF s.isRotating THEN @ ELSE 0 ]

\* The listeners whose names lastEvent keeps; every other listener is recorded as "other"
Observed == { "mouseup", "mouseleave", "undo-action", "redo-action" }

\* The state record c becomes the next state, if the listener's arithmetic was exact and
\* c is within the bounds; lastEvent records the listener and whether it found a gesture
\* in progress
AssignWithin(c, ok, name, longest, most, many) ==
        /\ ok
        /\ Len(c.shapes) <= many
        /\ Len(c.history) <= longest
        /\ c.nextId <= most + 1
        /\ c.imageDialogs.dialog + c.imageDialogs.decode <= MaxDialogs
        /\ Len(c.saveRequests) <= MaxDialogs
        /\ \A ref \in DOMAIN c.heap : Exact(c.heap[ref])
        /\ shapes' = c.shapes
        /\ heap' = c.heap
        /\ history' = c.history
        /\ redoStack' = c.redoStack
        /\ historyIndex' = c.historyIndex
        /\ selectedShape' = c.selectedShape
        /\ isDragging' = c.isDragging
        /\ dragOffsetX' = c.dragOffsetX
        /\ dragOffsetY' = c.dragOffsetY
        /\ currentShapeType' = c.currentShapeType
        /\ currentColor' = c.currentColor
        /\ isDrawingLine' = c.isDrawingLine
        /\ lineStartX' = c.lineStartX
        /\ lineStartY' = c.lineStartY
        /\ tempLineEndX' = c.tempLineEndX
        /\ tempLineEndY' = c.tempLineEndY
        /\ isResizing' = c.isResizing
        /\ isRotating' = c.isRotating
        /\ rotationStartAngle' = c.rotationStartAngle
        /\ shapeCenter' = c.shapeCenter
        /\ zoomLevel' = c.zoomLevel
        /\ offsetX' = c.offsetX
        /\ offsetY' = c.offsetY
        /\ activeHandle' = c.activeHandle
        /\ activeTextInput' = c.activeTextInput
        /\ editingTextShape' = c.editingTextShape
        /\ initialMouseDownPos' = c.initialMouseDownPos
        /\ clipboardShape' = c.clipboardShape
        /\ imageDialogs' = c.imageDialogs
        /\ saveRequests' = c.saveRequests
        /\ nextId' = c.nextId
        /\ lastEvent' = [ name |-> IF name \in Observed THEN name ELSE "other",
                           gesture |-> GestureActive(Cur) ]

Assign(c, ok, name) == AssignWithin(c, ok, name, MaxHistory, MaxIds, MaxShapes)

\* The result r of a listener becomes the next state
Set(r, name) == Assign(Forget(Collect(r)), r.ok, name)

\* Pointer positions of the events (clientX, clientY relative to the canvas)
Points ==
    { Pt(50 * Unit, 50 * Unit), Pt(110 * Unit, 60 * Unit) }
Tools == { "default", "rectangle", "line" }
Colors == { Red }

\* A pointer event with its position converted by getMousePos
Pointer(handler(_, _, _), p, name) ==
    /\ getMousePosOk(Cur, p.x, p.y)
    /\ Set(handler(Cur, getMousePos(Cur, p.x, p.y).x, getMousePos(Cur, p.x, p.y).y), name)

MouseDown == \E p \in Points : Pointer(mousedown, p, "mousedown")
MouseMove == \E p \in Points : Pointer(mousemove, p, "mousemove")
MouseUp == \E p \in Points : Pointer(mouseup, p, "mouseup")
MouseLeave == Set(mouseleave(Cur), "mouseleave")
DblClick == \E p \in Points : Pointer(dblclick, p, "dblclick")
KeydownDelete == Set(keydownDelete(Cur), "keydown")
ToolbarClick == \E toolType \in Tools : Set(setActiveTool(Cur, toolType), "toolbar")
ColorPickerInput == \E newColor \in Colors : Set(colorPickerInput(Cur, newColor), "color")
RemoveColorClick == Set(removeColorClick(Cur), "removeColor")
\* blur of the textarea, with the text typed so far
InputBlur ==
    /\ activeTextInput # << >>
    /\ \E text \in Texts : Set(finishTextInput(Cur, TRUE, text), "blur")
\* keydown Escape in the textarea
InputEscape ==
    /\ activeTextInput # << >>
    /\ Set(finishTextInput(Cur, FALSE, ""), "escape")
\* One 'undo-action' message: both listeners registered on the channel run
UndoAction == Set(undo(undo(Cur)), "undo-action")
\* One 'redo-action' message: both listeners registered on the channel run
RedoAction == Set(redo(redo(Cur)), "redo-action")
CopyCanvas == Set(handleCopyCanvas(Cur), "copy-canvas")
PasteCanvas == Set(handlePasteCanvas(Cur), "paste-canvas")
ImageSelectionFailed ==
    /\ imageDialogs.dialog > 0
    /\ Set(imageSelectionFailed(Cur), "image-failed")
ImageSelectionSucceeded ==
    /\ imageDialogs.dialog > 0
    /\ Set(imageSelectionSucceeded(Cur), "image-chosen")
TempImgOnload ==
    /\ imageDialogs.decode > 0
    /\ Set(tempImgOnload(Cur), "image-onload")
TempImgOnerror ==
    /\ imageDialogs.decode > 0
    /\ Set(tempImgOnerror(Cur), "image-onerror")

\* The listeners of the pointer, the toolbar, the Delete key, the undo / redo channels
\* and the clipboard channels.  The listeners of the text editor, the colour picker and
\* the image dialog are defined above; they are not among the events of Spec.  The
\* listeners of the text editor are events of SpecEdit.
Next ==
    \/ MouseDown
    \/ MouseMove
    \/ MouseUp
    \/ MouseLeave
    \/ KeydownDelete
    \/ ToolbarClick
    \/ UndoAction
    \/ RedoAction
    \/ CopyCanvas
    \/ PasteCanvas

Spec == Init /\ [][Next]_vars

(***************************************************************************)
(* The editor without pointer moves: text entry, Delete, undo and redo     *)
(***************************************************************************)
EditTools == { "default", "text" }

EditToolbarClick == \E toolType \in EditTools : Set(setActiveTool(Cur, toolType), "toolbar")

NextEdit ==
    \/ MouseDown
    \/ DblClick
    \/ EditToolbarClick
    \/ KeydownDelete
    \/ InputBlur
    \/ InputEscape
    \/ UndoAction
    \/ RedoAction

SpecEdit == Init /\ [][NextEdit]_vars

(***************************************************************************)
(* One Text, edited in place again and again, with a longer history        *)
(***************************************************************************)
LongHistory == 4
LongIds == 1
LongShapes == 1

SetLong(r, name) == AssignWithin(Forget(Collect(r)), r.ok, name, LongHistory, LongIds, LongShapes)

LongPoints == { Pt(50 * Unit, 50 * Unit) }
LongTexts == { " ", "Hello" }

PointerLong(handler(_, _, _), p, name) ==
    /\ getMousePosOk(Cur, p.x, p.y)
    /\ SetLong(handler(Cur, getMousePos(Cur, p.x, p.y).x, getMousePos(Cur, p.x, p.y).y), name)

LongMouseDown == \E p \in LongPoints : PointerLong(mousedown, p, "mousedown")
LongDblClick == \E p \in LongPoints : PointerLong(dblclick, p, "dblclick")
LongToolbarClick == \E toolType \in EditTools : SetLong(setActiveTool(Cur, toolType), "toolbar")
LongInputBlur ==
    /\ activeTextInput # << >>
    /\ \E text \in LongTexts : SetLong(finishTextInput(Cur, TRUE, text), "blur")
LongInputEscape ==
    /\ activeTextInput # << >>
    /\ SetLong(finishTextInput(Cur, FALSE, ""), "escape")
LongUndoAction == SetLong(undo(undo(Cur)), "undo-action")
LongRedoAction == SetLong(redo(redo(Cur)), "redo-action")

NextLong ==
    \/ LongMouseDown
    \/ LongDblClick
    \/ LongToolbarClick
    \/ LongInputBlur
    \/ LongInputEscape
    \/ LongUndoAction
    \/ LongRedoAction

SpecLong == Init /\ [][NextLong]_vars

(***************************************************************************)
(* SpecResize: one shape made with a shape tool, grabbed by its handles,   *)
(* flipped, resized and restored by undo / redo                            *)
(***************************************************************************)
ResizeHistory == 3
ResizeIds == 1
ResizeShapes == 1

SetResize(r, name) ==
    AssignWithin(Forget(Collect(r)), r.ok, name, ResizeHistory, ResizeIds, ResizeShapes)

\* Pointer positions of a mousedown: the origin and the middle of the canvas
ResizePoints == { Pt(0, 0), Pt(55 * Unit, 45 * Unit) }

\* The middles of the middle-right and bottom-right handles of the selected shape, where
\* getHandles puts them
HandlePoints(s) ==
    IF s.selectedShape = Null THEN { }
    ELSE LET handles == getHandles(s.heap[s.selectedShape])
         IN  { Pt(handles[k].x + handleSize \div 2, handles[k].y + handleSize \div 2) :
                 k \in { j \in 1..Len(handles) :
                           handles[j].type \in { "middle-right", "bottom-right" } } }

PointerResize(handler(_, _, _), p, name) ==
    /\ getMousePosOk(Cur, p.x, p.y)
    /\ SetResize(handler(Cur, getMousePos(Cur, p.x, p.y).x, getMousePos(Cur, p.x, p.y).y), name)

NextResize ==
    \/ \E toolType \in ShapeTools : SetResize(setActiveTool(Cur, toolType), "toolbar")
    \/ \E p \in ResizePoints \cup HandlePoints(Cur) : PointerResize(mousedown, p, "mousedown")
    \/ PointerResize(mousemove, Pt(0, 0), "mousemove")
    \/ PointerResize(mouseup, Pt(0, 0), "mouseup")
    \/ \E field \in { "flipH", "flipV" } : SetResize(flipButtonClick(Cur, field), "flip")
    \/ UndoAction
    \/ RedoAction

SpecResize == Init /\ [][NextResize]_vars

(***************************************************************************)
(* SpecPorts: the listeners that await a port (the image tool, Save As)    *)
(* among those of the toolbar, the mouse button, the Delete key,           *)
(* undo / redo and the clipboard                                           *)
(***************************************************************************)
NextPorts ==
    \/ \E toolType \in { "default", "image" } : Set(setActiveTool(Cur, toolType), "toolbar")
    \/ MouseDown
    \/ KeydownDelete
    \/ UndoAction
    \/ RedoAction
    \/ CopyCanvas
    \/ PasteCanvas
    \/ ImageSelectionFailed
    \/ ImageSelectionSucceeded
    \/ TempImgOnload
    \/ TempImgOnerror
    \/ Set(onRequestSave(Cur), "request-save-canvas")
    \/ \E k \in 1..Len(saveRequests) : \E chosen \in BOOLEAN :
          /\ saveRequests[k].awaiting = "saveDialog"
          /\ Set(saveDialogAnswered(Cur, k, chosen), "saveDialog")
    \/ \E k \in 1..Len(saveRequests) :
          /\ saveRequests[k].awaiting = "writeFile"
          /\ Set(writeFileAnswered(Cur, k), "writeFile")

SpecPorts == Init /\ [][NextPorts]_vars


(***************************************************************************)
(* Properties of undo / redo                                               *)
(***************************************************************************)
HistoryVars == << history, historyIndex, redoStack >>

\* C1: undo() immediately followed by redo() leaves the scene equal, shape for shape
\* and field for field, to the scene before the undo; so do two undos followed by two
\* redos.
C1_UndoRedoRestoresScene ==
    /\ historyIndex > 0 => Scene(redo(undo(Cur))) = Scene(Cur)
    /\ historyIndex > 1 => Scene(redo(redo(undo(undo(Cur))))) = Scene(Cur)

\* C2: an 'undo-action' at the oldest history entry and a 'redo-action' with an empty
\* redo stack leave the scene, the history, the cursor and the redo stack unchanged.
C2_UndoRedoAtTheEnds ==
    [][ /\ (lastEvent'.name = "undo-action" /\ historyIndex <= 0)
            => UNCHANGED << shapes, heap, history, historyIndex, redoStack >>
        /\ (lastEvent'.name = "redo-action" /\ Len(redoStack) = 0)
            => UNCHANGED << shapes, heap, history, historyIndex, redoStack >> ]_vars

\* An 'undo-action' arrived while the cursor was at the only entry of the history
C2_Witness ==
    /\ lastEvent.name = "undo-action"
    /\ historyIndex = 0
    /\ Len(history) = 1
    /\ redoStack = << >>

\* C3: a commit (a change of the history by a listener other than undo and redo) moves
\* the cursor one entry forward, keeps the entries up to the old cursor, drops the
\* entries beyond it, and empties the redo stack; a redo right after it changes nothing.
C3_CommitTruncates ==
    [][ (lastEvent'.name \notin { "undo-action", "redo-action" }
            /\ << history, historyIndex >>' # << history, historyIndex >>)
        => /\ historyIndex' = historyIndex + 1
           /\ Len(history') = historyIndex' + 1
           /\ SubSeq(history', 1, historyIndex + 1) = SubSeq(history, 1, historyIndex + 1)
           /\ redoStack' = << >>
           /\ redo(Cur') = Cur' ]_vars

\* The shape with id 1 was committed and undone, then the shape with id 2 was
\* committed: its snapshot has replaced the undone entry and nothing can be redone
C3_Witness ==
    /\ historyIndex = 1
    /\ Len(history) = 2
    /\ Len(history[2]) = 1
    /\ history[2][1].id = 2
    /\ redoStack = << >>

\* C4: 0 <= historyIndex < length(history), and history[0] is the empty scene of the
\* startup commit.
C4_CursorInsideHistory ==
    /\ 0 <= historyIndex
    /\ historyIndex < Len(history)
    /\ history[1] = << >>

\* An undo has moved the cursor back to the startup entry; later entries are kept
C4_Witness ==
    /\ lastEvent.name = "undo-action"
    /\ historyIndex = 0
    /\ Len(history) > 1

\* C5: one 'undo-action' message runs undo() once: the cursor moves back by at most
\* one entry (and one 'redo-action' message moves it forward by at most one).
C5_OneStepPerMessage ==
    [][ /\ lastEvent'.name = "undo-action" => historyIndex' >= historyIndex - 1
        /\ lastEvent'.name = "redo-action" => historyIndex' <= historyIndex + 1 ]_vars

(***************************************************************************)
(* Properties of the pointer gestures                                      *)
(***************************************************************************)
\* The number of modes that are active: the four gesture flags and the text editor
ActiveModes ==
    LET n(b) == IF b THEN 1 ELSE 0
    IN  n(isDrawingLine) + n(isDragging) + n(isResizing) + n(isRotating)
            + n(activeTextInput # << >>)

\* C6: at most one of isDrawingLine, isDragging, isResizing, isRotating and text
\* editing is active.
C6_AtMostOneMode == ActiveModes <= 1

\* C7: after a mouseup has been handled, the fake mousemove included, none of the four
\* gesture flags is set.
C7_MouseupEndsGestures == lastEvent.name = "mouseup" => ~GestureActive(Cur)

\* C8: a mouseup that ends rotating, resizing or dragging commits exactly one snapshot,
\* equal to the scene; the active handle, the rotation centre and the initial-geometry
\* fields are gone; the same shape is selected.
C8_MouseupCommitsGesture ==
    [][ (lastEvent'.name = "mouseup" /\ (isRotating \/ isResizing \/ isDragging))
        => /\ historyIndex' = historyIndex + 1
           /\ Len(history') = historyIndex' + 1
           /\ SubSeq(history', 1, historyIndex + 1) = SubSeq(history, 1, historyIndex + 1)
           /\ history'[historyIndex' + 1] = Scene(Cur')
           /\ activeHandle' = ""
           /\ shapeCenter' = << >>
           /\ \A ref \in DOMAIN heap' : heap'[ref].init = << >>
           /\ selectedShape' = selectedShape ]_vars

\* C9: while a gesture is active, only the mouseup that completes it changes the
\* history, the cursor or the redo stack.
C9_NoHistoryChangeInGesture ==
    [][ (GestureActive(Cur) /\ lastEvent'.name # "mouseup") => UNCHANGED HistoryVars ]_vars

\* C10: a mouseleave during a gesture clears the four gesture flags and the pending
\* drag start, and leaves the history, the cursor and the redo stack unchanged; a
\* mouseup that follows it commits nothing.
C10_MouseleaveCancels ==
    [][ (lastEvent'.name = "mouseleave" /\ GestureActive(Cur))
        => /\ ~GestureActive(Cur')
           /\ initialMouseDownPos' = << >>
           /\ UNCHANGED HistoryVars
           /\ \A p \in Points :
                LET after == mouseup(Cur', getMousePos(Cur', p.x, p.y).x,
                                     getMousePos(Cur', p.x, p.y).y)
                IN  << after.history, after.historyIndex, after.redoStack >> = HistoryVars' ]_vars

\* The pointer has left the canvas during a gesture, after at least one commit
C10_Witness ==
    /\ lastEvent.name = "mouseleave"
    /\ lastEvent.gesture
    /\ historyIndex > 0

(***************************************************************************)
(* Properties of the tools and of the listeners' effects on the scene      *)
(***************************************************************************)
\* The values of data-shape on the toolbar buttons
AllTools == { "default", "rectangle", "circle", "diamond", "line", "text", "image" }

\* C11: a switch of the active tool through setActiveTool while a line is drawn, or a
\* shape is resized or rotated, ends that gesture, and commits nothing.
C11_ToolSwitchCancels ==
    \A toolType \in AllTools \ { currentShapeType } :
        (isDrawingLine \/ isResizing \/ isRotating)
        => LET after == setActiveTool(Cur, toolType)
           IN  /\ ~after.isDrawingLine /\ ~after.isResizing /\ ~after.isRotating
               /\ << after.history, after.historyIndex, after.redoStack >> = HistoryVars

\* C12: a mouseup while a line is drawn ends the drawing.  If the release point differs
\* from the start point, one Line with these two endpoints is appended, one snapshot is
\* committed and the tool becomes default; if not, the scene, the history and the tool
\* (line) stay as they are.
C12_MouseupEndsLine ==
    \A p \in Points :
        isDrawingLine
        => LET mouse == getMousePos(Cur, p.x, p.y)
               after == mouseup(Cur, mouse.x, mouse.y)
               n == Len(shapes)
           IN  /\ ~after.isDrawingLine
               /\ IF mouse.x # lineStartX \/ mouse.y # lineStartY
                  THEN /\ Len(after.shapes) = n + 1
                       /\ SubSeq(after.shapes, 1, n) = shapes
                       /\ after.heap[after.shapes[n + 1]].type = "line"
                       /\ after.heap[after.shapes[n + 1]].x1 = lineStartX
                       /\ after.heap[after.shapes[n + 1]].y1 = lineStartY
                       /\ after.heap[after.shapes[n + 1]].x2 = mouse.x
                       /\ after.heap[after.shapes[n + 1]].y2 = mouse.y
                       /\ after.historyIndex = historyIndex + 1
                       /\ Len(after.history) = historyIndex + 2
                       /\ SubSeq(after.history, 1, historyIndex + 1)
                              = SubSeq(history, 1, historyIndex + 1)
                       /\ after.currentShapeType = "default"
                  ELSE /\ Scene(after) = Scene(Cur)
                       /\ << after.history, after.historyIndex, after.redoStack >> = HistoryVars
                       /\ after.currentShapeType = "line"

\* The states in which a mousedown can arrive: the current state, and the state that a
\* click on the image button of the toolbar makes of it
BeforePointerDown == { Cur, setActiveTool(Cur, "image") }

\* C13: a mousedown that hits no handle, with a tool other than line, over at least one
\* shape selects the last shape of the scene that contains the point and moves it to
\* the end of the scene; the other shapes keep their order, no shape is added, removed
\* or changed, and no gesture flag is set afterwards.
C13_MousedownSelectsTopmost ==
    \A p \in Points : \A before \in BeforePointerDown :
        LET mouse == getMousePos(before, p.x, p.y)
            inside == { k \in 1..Len(before.shapes) :
                          isInside(before.heap[before.shapes[k]], mouse.x, mouse.y) }
            after == mousedown(before, mouse.x, mouse.y)
        IN  (/\ before.currentShapeType # "line"
             /\ getHandleAt(before, mouse.x, mouse.y) = ""
             /\ inside # { })
            => \E top \in inside :
                  /\ \A k \in inside : k <= top
                  /\ after.selectedShape = before.shapes[top]
                  /\ after.shapes = Append(RemoveAt(before.shapes, top), before.shapes[top])
                  /\ \A k \in 1..Len(before.shapes) :
                        after.heap[before.shapes[k]] = before.heap[before.shapes[k]]
                  /\ ~GestureActive(after)

minZoom == [ n |-> 1, d |-> 10 ]
maxZoom == [ n |-> 10, d |-> 1 ]

\* The wheel listener, handled with the pointer at the origin of the canvas element
\* until Math.max(minZoom, Math.min(maxZoom, newZoomLevel)) clamps the zoom level at
\* "limit".  The mousemove it dispatches changes nothing while no gesture is in
\* progress and no mousedown position is kept.
wheelToLimit(s, limit) ==
    [ s EXCEPT !.zoomLevel = limit,
               !.offsetX = 0 - (((0 - s.offsetX) * s.zoomLevel.d * limit.n)
                                   \div (s.zoomLevel.n * limit.d)),
               !.offsetY = 0 - (((0 - s.offsetY) * s.zoomLevel.d * limit.n)
                                   \div (s.zoomLevel.n * limit.d)) ]

\* The wheel listener without the clamp: the zoom level would leave [minZoom, maxZoom]
wheelUnclamped(s, mouseXScreen, mouseYScreen, deltaY) ==
    LET z == s.zoomLevel
        raw == IF deltaY < 0 THEN [ n |-> z.n * 11, d |-> z.d * 10 ]
               ELSE [ n |-> z.n * 10, d |-> z.d * 11 ]
        g == CHOOSE c \in { 1, 10, 11, 110 } :
                /\ raw.n % c = 0 /\ raw.d % c = 0
                /\ \A e \in { 1, 10, 11, 110 } : raw.n % e = 0 /\ raw.d % e = 0 => e <= c
        newZoomLevel == [ n |-> raw.n \div g, d |-> raw.d \div g ]
        before == getMousePos(s, mouseXScreen, mouseYScreen)
        s1 == [ s EXCEPT
                  !.offsetX = mouseXScreen - (before.x * newZoomLevel.n) \div newZoomLevel.d,
                  !.offsetY = mouseYScreen - (before.y * newZoomLevel.n) \div newZoomLevel.d,
                  !.zoomLevel = newZoomLevel,
                  !.ok = /\ s.ok /\ getMousePosOk(s, mouseXScreen, mouseYScreen)
                         /\ (before.x * newZoomLevel.n) % newZoomLevel.d = 0
                         /\ (before.y * newZoomLevel.n) % newZoomLevel.d = 0 ]
    IN  mousemove(s1, getMousePos(s1, mouseXScreen, mouseYScreen).x,
                      getMousePos(s1, mouseXScreen, mouseYScreen).y)

\* The wheel listener, one step: zoomFactor 1.1 (11 / 10) in or out, clamped to
\* [minZoom, maxZoom], the offset moved so that the canvas point under the pointer stays
\* under it, and the mousemove that the listener dispatches at the pointer.  The zoom
\* levels are powers of 10 and of 11 over such powers, kept in lowest terms.
wheel(s, mouseXScreen, mouseYScreen, deltaY) ==
    LET z == s.zoomLevel
        raw == IF deltaY < 0 THEN [ n |-> z.n * 11, d |-> z.d * 10 ]
               ELSE [ n |-> z.n * 10, d |-> z.d * 11 ]
        g == CHOOSE c \in { 1, 10, 11, 110 } :
                /\ raw.n % c = 0 /\ raw.d % c = 0
                /\ \A e \in { 1, 10, 11, 110 } : raw.n % e = 0 /\ raw.d % e = 0 => e <= c
        \* Math.max(minZoom, Math.min(maxZoom, newZoomLevel))
        newZoomLevel ==
            IF raw.n * maxZoom.d > maxZoom.n * raw.d THEN maxZoom
            ELSE IF raw.n * minZoom.d < minZoom.n * raw.d THEN minZoom
            ELSE [ n |-> raw.n \div g, d |-> raw.d \div g ]
        before == getMousePos(s, mouseXScreen, mouseYScreen)
        s1 == [ s EXCEPT
                  !.offsetX = mouseXScreen - (before.x * newZoomLevel.n) \div newZoomLevel.d,
                  !.offsetY = mouseYScreen - (before.y * newZoomLevel.n) \div newZoomLevel.d,
                  !.zoomLevel = newZoomLevel,
                  !.ok = /\ s.ok /\ getMousePosOk(s, mouseXScreen, mouseYScreen)
                         /\ (before.x * newZoomLevel.n) % newZoomLevel.d = 0
                         /\ (before.y * newZoomLevel.n) % newZoomLevel.d = 0 ]
    IN  mousemove(s1, getMousePos(s1, mouseXScreen, mouseYScreen).x,
                      getMousePos(s1, mouseXScreen, mouseYScreen).y)

\* The states in which a press on a shape can arrive: those of BeforePointerDown, and
\* the quiet states zoomed to either limit
BeforePress ==
    BeforePointerDown
    \cup { wheelToLimit(Cur, limit) : limit \in
             IF ~GestureActive(Cur) /\ initialMouseDownPos = << >>
             THEN { minZoom, maxZoom } ELSE { } }

\* Displacements of the pointer on the screen between a mousedown and a later event:
\* none, 3 and 4 pixels to the right, (2, 2) and (3, 1)
ScreenMoves ==
    { Pt(0, 0), Pt(3 * Unit, 0), Pt(4 * Unit, 0), Pt(2 * Unit, 2 * Unit), Pt(3 * Unit, Unit) }

\* C14: dragging starts only on a pointer-move whose distance on the screen (distance
\* on the canvas times the zoom level) from the pointer-down is strictly greater than
\* 3; no other listener starts it.  A press and a release on a shape, with no move
\* that far, leave every shape as it was and commit nothing.
C14_DragThreshold ==
    /\ ~isDragging =>
          /\ ~mouseleave(Cur).isDragging /\ ~keydownDelete(Cur).isDragging
          /\ ~undo(Cur).isDragging /\ ~redo(Cur).isDragging
          /\ ~handlePasteCanvas(Cur).isDragging /\ ~handleCopyCanvas(Cur).isDragging
          /\ \A toolType \in AllTools : ~setActiveTool(Cur, toolType).isDragging
    /\ \A before \in BeforePress : \A p \in Points : \A m \in ScreenMoves :
          LET z == before.zoomLevel
              q == Pt(p.x + (m.x * z.d) \div z.n, p.y + (m.y * z.d) \div z.n)
              far == m.x * m.x + m.y * m.y > (3 * Unit) * (3 * Unit)
              down == mousedown(before, p.x, p.y)
              move == mousemove(down, q.x, q.y)
              up == mouseup(down, q.x, q.y)
              onShape ==
                  /\ before.currentShapeType # "line"
                  /\ getHandleAt(before, p.x, p.y) = ""
                  /\ \E k \in 1..Len(before.shapes) :
                        isInside(before.heap[before.shapes[k]], p.x, p.y)
          IN  /\ ~down.isDragging
              /\ move.isDragging => far
              /\ up.isDragging => far
              /\ (onShape /\ ~far) =>
                    /\ Len(up.shapes) = Len(before.shapes)
                    /\ \A k \in 1..Len(before.shapes) :
                          up.heap[before.shapes[k]] = before.heap[before.shapes[k]]
                    /\ << up.history, up.historyIndex, up.redoStack >>
                          = << before.history, before.historyIndex, before.redoStack >>

\* The states in which a click with a shape tool can arrive: the current state, and the
\* states that a click on a shape button of the toolbar makes of it
BeforeShapeClick == { Cur } \cup { setActiveTool(Cur, toolType) : toolType \in ShapeTools }

\* C15: a mousedown on empty space (no handle, no shape under the pointer) with the
\* rectangle, circle or diamond tool appends exactly one shape of that kind, of the
\* default size and centred on the click (100 x 60 for a rectangle or a diamond,
\* radius 40 for a circle), commits one snapshot and resets the tool to default.
C15_ShapeToolClick ==
    \A before \in BeforeShapeClick : \A p \in Points :
        LET mouse == getMousePos(before, p.x, p.y)
            tool == before.currentShapeType
            n == Len(before.shapes)
            after == mousedown(before, mouse.x, mouse.y)
        IN  (/\ tool \in ShapeTools
             /\ getHandleAt(before, mouse.x, mouse.y) = ""
             /\ \A k \in 1..n : ~isInside(before.heap[before.shapes[k]], mouse.x, mouse.y))
            => /\ Len(after.shapes) = n + 1
               /\ SubSeq(after.shapes, 1, n) = before.shapes
               /\ \A k \in 1..n : after.heap[before.shapes[k]] = before.heap[before.shapes[k]]
               /\ LET o == after.heap[after.shapes[n + 1]]
                  IN  /\ o.type = tool
                      /\ tool = "circle" =>
                            o.x = mouse.x /\ o.y = mouse.y /\ o.radius = 40 * Unit
                      /\ tool # "circle" =>
                            /\ o.width = 100 * Unit /\ o.height = 60 * Unit
                            /\ o.x + 50 * Unit = mouse.x /\ o.y + 30 * Unit = mouse.y
               /\ after.historyIndex = before.historyIndex + 1
               /\ Len(after.history) = after.historyIndex + 1
               /\ SubSeq(after.history, 1, before.historyIndex + 1)
                     = SubSeq(before.history, 1, before.historyIndex + 1)
               /\ after.currentShapeType = "default"

\* A click with the rectangle tool has just added a rectangle centred on a pointer position
C15_Witness ==
    /\ shapes # << >>
    /\ currentShapeType = "default" /\ selectedShape = Null
    /\ redoStack = << >> /\ historyIndex = Len(history) - 1 /\ historyIndex > 0
    /\ LET o == heap[shapes[Len(shapes)]]
       IN  /\ o.type = "rectangle" /\ o.id = nextId - 1
           /\ o.width = 100 * Unit /\ o.height = 60 * Unit
           /\ \E p \in Points : o.x + 50 * Unit = p.x /\ o.y + 30 * Unit = p.y

Pasted(c, newId) ==
    IF c.type = "line"
    THEN [ c EXCEPT !.x = c.x + 10 * Unit, !.y = c.y + 10 * Unit,
                    !.x1 = c.x1 + 10 * Unit, !.y1 = c.y1 + 10 * Unit,
                    !.x2 = c.x2 + 10 * Unit, !.y2 = c.y2 + 10 * Unit, !.id = newId ]
    ELSE [ c EXCEPT !.x = c.x + 10 * Unit, !.y = c.y + 10 * Unit, !.id = newId ]

C18_NewTextEntry ==
    (activeTextInput # << >> /\ editingTextShape = Null) =>
        \A text \in Texts : \A addShape \in BOOLEAN :
            LET after == finishTextInput(Cur, addShape, text)
                n == Len(shapes)
            IN  /\ after.activeTextInput = << >>
                /\ after.editingTextShape = Null
                /\ IF addShape /\ text \notin { "", " " }
                   THEN /\ Len(after.shapes) = n + 1
                        /\ SubSeq(after.shapes, 1, n) = shapes
                        /\ \A k \in 1..n : after.heap[shapes[k]] = heap[shapes[k]]
                        /\ after.heap[after.shapes[n + 1]].type = "text"
                        /\ after.heap[after.shapes[n + 1]].text = text
                        /\ after.selectedShape = after.shapes[n + 1]
                        /\ after.historyIndex = historyIndex + 1
                        /\ Len(after.history) = after.historyIndex + 1
                        /\ SubSeq(after.history, 1, historyIndex + 1)
                              = SubSeq(history, 1, historyIndex + 1)
                   ELSE /\ after.shapes = shapes
                        /\ Scene(after) = Scene(Cur)
                        /\ << after.history, after.historyIndex, after.redoStack >> = HistoryVars

\* A blur has just added a new Text: the last commit added the selected, last shape
C18_Witness ==
    /\ shapes # << >> /\ activeTextInput = << >> /\ editingTextShape = Null
    /\ selectedShape = shapes[Len(shapes)]
    /\ heap[selectedShape].type = "text" /\ heap[selectedShape].id = nextId - 1
    /\ redoStack = << >> /\ historyIndex = Len(history) - 1 /\ historyIndex > 0
    /\ Len(history[historyIndex + 1]) = Len(history[historyIndex]) + 1
    /\ Len(shapes) = Len(history[historyIndex + 1])

\* The shapes of the scene that are the Text being edited in place: the same object, or
\* a shape with its id
EditedInScene ==
    { k \in 1..Len(shapes) :
        shapes[k] = editingTextShape \/ heap[shapes[k]].id = heap[editingTextShape].id }

\* C19: a Text that is being edited in place is absent from the scene during the whole
\* edit, and when the edit ends (blur, Escape, blank content) the scene contains it
\* exactly once, whatever other commands (undo, redo, paste) were handled meanwhile.
C19_EditedTextOnce ==
    editingTextShape # Null =>
        /\ EditedInScene = { }
        /\ \A text \in Texts : \A addShape \in BOOLEAN :
              LET after == finishTextInput(Cur, addShape, text)
              IN  Cardinality({ k \in 1..Len(after.shapes) :
                                  after.heap[after.shapes[k]].id = heap[editingTextShape].id }) = 1

\* C20: after every undo command and after every redo command no shape is selected.
C20_UndoRedoDeselect ==
    lastEvent.name \in { "undo-action", "redo-action" } => selectedShape = Null

\* C20, as the renderer has it: after an undo command handled with the cursor beyond
\* the oldest history entry, and after a redo command handled with a non-empty redo
\* stack, no shape is selected; an undo command at the oldest entry and a redo command
\* with an empty redo stack change nothing, the selection included.
C20_DeselectWhenRestoring ==
    /\ historyIndex > 0 => undo(undo(Cur)).selectedShape = Null
    /\ redoStack # << >> => redo(redo(Cur)).selectedShape = Null
    /\ historyIndex <= 0 => undo(undo(Cur)) = Cur
    /\ redoStack = << >> => redo(redo(Cur)) = Cur

\* An 'undo-action' has just taken two steps back, to the oldest entry
C20_Witness ==
    /\ lastEvent.name = "undo-action"
    /\ historyIndex = 0 /\ Len(redoStack) = 2
    /\ selectedShape = Null

(***************************************************************************)
(* Properties of resizing, hit testing and the view                        *)
(***************************************************************************)
\* C21: every rectangle, diamond and image of the scene and of every snapshot of the
\* history and of the redo stack has a width and a height of at least 16 (2 * handleSize),
\* and every circle a radius of at least 8, after any sequence of creations, resizes,
\* flips, undos and redos.
C21_MinimumSize ==
    LET Sized(o) ==
            /\ o.type \in { "rectangle", "diamond", "image" } =>
                  o.width >= 16 * Unit /\ o.height >= 16 * Unit
            /\ o.type = "circle" => o.radius >= 8 * Unit
        AllSized(scene) == \A k \in 1..Len(scene) : Sized(scene[k])
    IN  /\ AllSized(Scene(Cur))
        /\ \A k \in 1..Len(history) : AllSized(history[k])
        /\ \A k \in 1..Len(redoStack) : AllSized(redoStack[k])

\* A resize that went past the opposite edges was committed, then undone: the scene is
\* empty again and the snapshot on the redo stack holds a box of exactly 16 x 16
C21_Witness ==
    /\ lastEvent.name = "undo-action"
    /\ shapes = << >>
    /\ \E k \in 1..Len(redoStack) : \E j \in 1..Len(redoStack[k]) :
          LET o == redoStack[k][j]
          IN  /\ o.type \in { "rectangle", "diamond" }
              /\ o.width = 16 * Unit /\ o.height = 16 * Unit

\* C22: while a rectangle, a diamond or an image is resized by a corner handle, in every
\* flip state, a pointer further out from the grabbed corner makes both the width and
\* the height strictly larger, and a pointer past the opposite edges makes them exactly
\* 16 (minSize), never less.
C22_CornerResize ==
    selectedShape # Null /\ heap[selectedShape].type \in { "rectangle", "diamond", "image" }
    => LET handles == getHandles(heap[selectedShape])
       IN  \A k \in { j \in 1..Len(handles) :
                        handles[j].type \in { "top-left", "top-right", "bottom-left",
                                              "bottom-right" } } :
              LET grabbed == Pt(handles[k].x + handleSize \div 2, handles[k].y + handleSize \div 2)
                  down == mousedown(Cur, grabbed.x, grabbed.y)
                  center == getCenter(heap[selectedShape])
                  outX == IF grabbed.x > center.x THEN 1 ELSE -1
                  outY == IF grabbed.y > center.y THEN 1 ELSE -1
                  At(steps) == mousemove(down, grabbed.x + steps * outX * 10 * Unit,
                                               grabbed.y + steps * outY * 10 * Unit)
                  Box(s) == s.heap[s.selectedShape]
              IN  down.isResizing /\ down.activeHandle = handles[k].type
                  => /\ Box(At(1)).width > Box(down).width
                     /\ Box(At(1)).height > Box(down).height
                     /\ Box(At(2)).width > Box(At(1)).width
                     /\ Box(At(2)).height > Box(At(1)).height
                     /\ Box(At(-100)).width = 16 * Unit
                     /\ Box(At(-100)).height = 16 * Unit

\* isInside holds at the centre of o and fails farther from the centre than o reaches,
\* with o turned by every multiple of a quarter turn and in every flip state
HitTestHolds(o) ==
    LET \* an upper bound of the distance from the centre to the farthest point inside
        reach == CASE o.type = "circle" -> o.radius
                   [] o.type = "line" -> Abs(o.x2 - o.x1) + Abs(o.y2 - o.y1) + tolerance
                   [] OTHER -> o.width \div 2 + o.height \div 2
        \* one pixel beyond that distance along the axes, and that far along both axes
        offsets == { Pt(sx * (reach + Unit), 0) : sx \in { -1, 1 } }
                   \cup { Pt(0, sy * (reach + Unit)) : sy \in { -1, 1 } }
                   \cup { Pt(sx * reach, sy * reach) : sx \in { -1, 1 }, sy \in { -1, 1 } }
    IN  \A q \in -1..2 : \A fh \in BOOLEAN : \A fv \in BOOLEAN :
            LET turned == [ o EXCEPT !.angle = << q >>, !.flipH = fh, !.flipV = fv ]
                center == getCenter(turned)
            IN  /\ isInside(turned, center.x, center.y)
                /\ \A d \in offsets : ~isInside(turned, center.x + d.x, center.y + d.y)

\* The hit test of a rectangle, a circle, a diamond, an image, two lines and two texts
\* as their constructors make them
HitTestOfNewShapes ==
    /\ \A o \in { Rectangle(50 * Unit, 50 * Unit, 100 * Unit, 60 * Unit, NoColor, 1),
                   Circle(90 * Unit, 90 * Unit, 40 * Unit, NoColor, 1),
                   Diamond(50 * Unit, 50 * Unit, 100 * Unit, 60 * Unit, Red, 1),
                   ImageShape(70 * Unit, 70 * Unit, 40 * Unit, 40 * Unit, 1),
                   Line(50 * Unit, 50 * Unit, 110 * Unit, 60 * Unit, Black, 1),
                   Line(50 * Unit, 50 * Unit, 50 * Unit, 50 * Unit, Black, 1),
                   Text(50 * Unit, 50 * Unit, "Hello", NoColor, 1),
                   Text(50 * Unit, 50 * Unit, "Hi\nyou", NoColor, 1) } : HitTestHolds(o)
    /\ LET o == Rectangle(50 * Unit, 50 * Unit, 100 * Unit, 60 * Unit, NoColor, 1)
       IN  isInside(o, 55 * Unit, 55 * Unit) /\ ~isInside(o, 5 * Unit, 5 * Unit)

\* C23: for a shape of every class (the shapes of the scene, and a rectangle, a circle,
\* a diamond, an image, a line and a text as their constructors make them), turned by
\* every multiple of a quarter turn and in every flip state, isInside holds at
\* getCenter() and fails at every point farther from the centre than the shape
\* reaches; a 100 x 60 rectangle at (50, 50) contains (55, 55) and not (5, 5).
C23_HitTest ==
    /\ HitTestOfNewShapes
    /\ \A k \in 1..Len(shapes) : HitTestHolds(heap[shapes[k]])

\* A press at the centre of a flipped shape found the shape under the pointer
C23_Witness ==
    /\ selectedShape # Null
    /\ heap[selectedShape].flipH \/ heap[selectedShape].flipV
    /\ initialMouseDownPos = << getCenter(heap[selectedShape]) >>
    /\ ~GestureActive(Cur)

C25_FailedRequestsChangeNothing ==
    LET Same(b, a) ==
            /\ Scene(a) = Scene(b)
            /\ << a.history, a.historyIndex, a.redoStack >>
                  = << b.history, b.historyIndex, b.redoStack >>
    IN  /\ Same(Cur, setActiveTool(Cur, "image"))
        /\ Same(Cur, onRequestSave(Cur))
        /\ imageDialogs.dialog > 0 => Same(Cur, imageSelectionFailed(Cur))
        /\ imageDialogs.decode > 0 => Same(Cur, tempImgOnerror(Cur))
        /\ \A k \in 1..Len(saveRequests) :
              /\ Same(Cur, saveDialogAnswered(Cur, k, FALSE))
              /\ Same(Cur, saveDialogAnswered(Cur, k, TRUE))
              /\ Same(Cur, writeFileAnswered(Cur, k))
        /\ imageDialogs.dialog > 0 => Same(Cur, imageSelectionSucceeded(Cur))
        /\ imageDialogs.decode > 0 =>
              LET after == tempImgOnload(Cur)
                  n == Len(shapes)
              IN  /\ Len(after.shapes) = n + 1
                  /\ SubSeq(Scene(after), 1, n) = Scene(Cur)
                  /\ after.heap[after.shapes[n + 1]].type = "image"
                  /\ after.historyIndex = historyIndex + 1
                  /\ after.history[after.historyIndex + 1] = CloneAll(Scene(after))
                  /\ after.selectedShape = after.shapes[n + 1]

\* C26: while a request to a port is outstanding (the open-image dialog, the save
\* dialog, the file write), no listener other than the completion of the request changes
\* the scene: a click with a shape tool, the Delete key, a paste, an undo and a redo
\* leave the shapes as they are.
C26_NoMutationWhileOutstanding ==
    imageDialogs.dialog > 0 \/ saveRequests # << >> =>
        /\ Scene(keydownDelete(Cur)) = Scene(Cur)
        /\ Scene(handlePasteCanvas(Cur)) = Scene(Cur)
        /\ Scene(undo(Cur)) = Scene(Cur)
        /\ Scene(redo(Cur)) = Scene(Cur)
        /\ \A p \in Points : \A toolType \in ShapeTools :
              Scene(mousedown(setActiveTool(Cur, toolType), p.x, p.y)) = Scene(Cur)

(***************************************************************************)
(* SpecImages: one image is inserted, selected, copied, deleted, undone    *)
(* and redone while the image elements of the ImageShape objects (the one  *)
(* of the scene, the clones of the snapshots and of the clipboard) finish  *)
(* loading, each once, in any order                                        *)
(***************************************************************************)
NextImages ==
    \/ \E toolType \in { "default", "image" } : SetResize(setActiveTool(Cur, toolType), "toolbar")
    \/ /\ imageDialogs.dialog > 0
       /\ SetResize(imageSelectionSucceeded(Cur), "image-chosen")
    \/ /\ imageDialogs.decode > 0
       /\ SetResize(tempImgOnload(Cur), "image-onload")
    \/ PointerResize(mousedown, Pt(55 * Unit, 45 * Unit), "mousedown")
    \/ PointerResize(mouseup, Pt(55 * Unit, 45 * Unit), "mouseup")
    \/ SetResize(keydownDelete(Cur), "keydown")
    \/ SetResize(handleCopyCanvas(Cur), "copy-canvas")
    \/ SetResize(undo(undo(Cur)), "undo-action")
    \/ SetResize(redo(redo(Cur)), "redo-action")
    \/ \E ref \in DOMAIN heap : \E outcome \in { "load", "error" } :
          /\ heap[ref].load = "loading"
          /\ SetResize(imageElementSettled(Cur, << "heap", ref >>, outcome), "imageElement")
    \/ \E k \in 1..Len(history) : \E j \in 1..Len(history[k]) :
          \E outcome \in { "load", "error" } :
             /\ history[k][j].load = "loading"
             /\ SetResize(imageElementSettled(Cur, << "history", k, j >>, outcome), "imageElement")
    \/ \E k \in 1..Len(redoStack) : \E j \in 1..Len(redoStack[k]) :
          \E outcome \in { "load", "error" } :
             /\ redoStack[k][j].load = "loading"
             /\ SetResize(imageElementSettled(Cur, << "redoStack", k, j >>, outcome), "imageElement")
    \/ \E outcome \in { "load", "error" } :
          /\ clipboardShape # << >>
          /\ clipboardShape[1].load = "loading"
          /\ SetResize(imageElementSettled(Cur, << "clipboardShape" >>, outcome), "imageElement")

SpecImages == Init /\ [][NextImages]_vars

(***************************************************************************)
(* SpecView: the wheel among the listeners of the toolbar and the pointer, *)
(* with one shape                                                          *)
(***************************************************************************)
\* The wheel turns at the screen point (55, 55); a step is taken when the fractions
\* represent its result exactly, which allows two steps in and one step out from zoom
\* level 1 and one step back from each limit
\* The pointer is pressed at two points and in the middle of the rotation handle of the
\* selection (the ninth of getHandles), and moves to the corner (0, 0) or to the right
\* of the middle of the canvas
NextView ==
    \/ \E deltaY \in { -1, 1 } :
          SetResize(wheel(Cur, 55 * Unit, 55 * Unit, deltaY), "wheel")
    \/ \E limit \in { minZoom, maxZoom } :
          /\ ~GestureActive(Cur) /\ initialMouseDownPos = << >>
          /\ offsetX = 0 /\ offsetY = 0
          /\ SetResize(wheelToLimit(Cur, limit), "wheel")
    \/ SetResize(setActiveTool(Cur, "rectangle"), "toolbar")
    \/ \E p \in { Pt(0, 0), Pt(55 * Unit, 55 * Unit) }
                \cup (IF selectedShape = Null THEN { }
                      ELSE { toScreen(Cur, getHandles(heap[selectedShape])[9].x + handleSize \div 2,
                                           getHandles(heap[selectedShape])[9].y + handleSize \div 2) }) :
          PointerResize(mousedown, p, "mousedown")
    \/ \E p \in { Pt(0, 0), Pt(110 * Unit, 55 * Unit) } : PointerResize(mousemove, p, "mousemove")
    \/ PointerResize(mouseup, Pt(0, 0), "mouseup")

SpecView == Init /\ [][NextView]_vars

\* C27: a wheel step at a screen point leaves the canvas point under that screen point
\* where it was and the zoom level within [0.1, 10], also when the step is clamped; a
\* step in at maxZoom and a step out at minZoom leave the zoom level and the offset as
\* they are.  The clamp of a level strictly between a limit and one step from it (as
\* 1.1^24 is) is tried from the levels 9.85 and 0.1015, with the canvas point (100, 100)
\* under the pointer.
C27_WheelKeepsPoint ==
    /\ \A p \in { Pt(0, 0), Pt(55 * Unit, 55 * Unit), Pt(110 * Unit, 88 * Unit) } :
          \A deltaY \in { -1, 1 } :
              LET after == wheel(Cur, p.x, p.y, deltaY)
                  z == after.zoomLevel
              IN  /\ z.n * minZoom.d >= minZoom.n * z.d
                  /\ z.n * maxZoom.d <= maxZoom.n * z.d
                  /\ after.ok =>
                        /\ getMousePosOk(after, p.x, p.y)
                        /\ getMousePos(after, p.x, p.y) = getMousePos(Cur, p.x, p.y)
                        /\ (zoomLevel = maxZoom /\ deltaY < 0)
                           \/ (zoomLevel = minZoom /\ deltaY > 0) =>
                              << z, after.offsetX, after.offsetY >>
                                  = << zoomLevel, offsetX, offsetY >>
    /\ \A near \in { [ level |-> [ n |-> 197, d |-> 20 ], deltaY |-> -1, limit |-> maxZoom ],
                      [ level |-> [ n |-> 203, d |-> 2000 ], deltaY |-> 1, limit |-> minZoom ] } :
          LET x == 55 * Unit
              y == 44 * Unit
              from == [ Cur EXCEPT !.zoomLevel = near.level,
                                   !.offsetX = x - (100 * Unit * near.level.n) \div near.level.d,
                                   !.offsetY = y - (100 * Unit * near.level.n) \div near.level.d ]
              after == wheel(from, x, y, near.deltaY)
          IN  /\ getMousePosOk(from, x, y) /\ getMousePos(from, x, y) = Pt(100 * Unit, 100 * Unit)
              /\ after.zoomLevel = near.limit
              /\ getMousePosOk(after, x, y) /\ getMousePos(after, x, y) = Pt(100 * Unit, 100 * Unit)

\* A wheel step at (55, 55) has zoomed in from 1 to 1.1 with a shape in the scene: the
\* offset moved and the canvas point under the pointer is still (55, 55)
C27_Witness ==
    /\ zoomLevel = [ n |-> 11, d |-> 10 ]
    /\ shapes # << >>
    /\ offsetX # 0
    /\ getMousePos(Cur, 55 * Unit, 55 * Unit) = Pt(55 * Unit, 55 * Unit)

(***************************************************************************)
(* Properties of the pointer listeners                                     *)
(***************************************************************************)
\* C28: a mousemove changes neither the history, the cursor nor the redo stack, and the
\* scene holds the same shapes in the same order after it, whether nothing is going
\* on, a press is pending, or a shape is dragged, resized or rotated or a line is drawn
\* (after a press on each handle of the selection as well).
C28_MousemoveFrame ==
    LET Frame(b) ==
            \A p \in Points \cup { Pt(0, 0) } :
                LET after == mousemove(b, p.x, p.y)
                IN  /\ after.history = b.history
                    /\ after.historyIndex = b.historyIndex
                    /\ after.redoStack = b.redoStack
                    /\ after.shapes = b.shapes
                    /\ \A k \in 1..Len(b.shapes) :
                          /\ after.heap[after.shapes[k]].id = b.heap[b.shapes[k]].id
                          /\ after.heap[after.shapes[k]].type = b.heap[b.shapes[k]].type
        handles == IF selectedShape = Null THEN << >> ELSE getHandles(heap[selectedShape])
    IN  /\ Frame(Cur)
        /\ \A k \in 1..Len(handles) :
              Frame(mousedown(Cur, handles[k].x + handleSize \div 2,
                                   handles[k].y + handleSize \div 2))

\* A shape of a scene of two is being dragged: the last move has put it somewhere else
\* than in the current snapshot, and nothing was committed
C28_Witness ==
    /\ isDragging
    /\ Len(shapes) = 2
    /\ historyIndex + 1 = Len(history)
    /\ Scene(Cur) # history[historyIndex + 1]
    /\ Len(Scene(Cur)) = Len(history[historyIndex + 1])

\* C29: a mousedown inside a handle of the selected shape, whatever the tool and
\* whatever shape lies under the pointer, starts rotating (rotation handle) or resizing
\* (any other handle), puts the selected shape last in the scene with the other shapes
\* in their order, keeps the selection and leaves initialMouseDownPos empty, so that
\* the mousemove after it does not start dragging.
C29_HandleFirst ==
    LET handles == IF selectedShape = Null THEN << >> ELSE getHandles(heap[selectedShape])
        Holds(x, y, after) ==
            /\ after.activeHandle = getHandleAt(Cur, x, y)
            /\ after.activeHandle # ""
            /\ after.isRotating = (after.activeHandle = "rotation")
            /\ after.isResizing = (after.activeHandle # "rotation")
            /\ ~after.isDragging
            /\ after.selectedShape = selectedShape
            /\ after.shapes # << >>
            /\ after.shapes[Len(after.shapes)] = selectedShape
            /\ Len(after.shapes) = Len(shapes)
            /\ SubSeq(after.shapes, 1, Len(shapes) - 1)
                  = SelectSeq(shapes, LAMBDA ref : ref # selectedShape)
            /\ after.initialMouseDownPos = << >>
            /\ \A p \in Points \cup { Pt(0, 0) } : ~mousemove(after, p.x, p.y).isDragging
    IN  \A k \in 1..Len(handles) :
            Holds(handles[k].x + handleSize \div 2, handles[k].y + handleSize \div 2,
                  mousedown(Cur, handles[k].x + handleSize \div 2,
                                 handles[k].y + handleSize \div 2))

\* C30: while an unrotated, unflipped rectangle, diamond or image is resized, the side
\* opposite to the grabbed handle stays where it was at the press (x + width with a
\* left handle, x with a right one, y + height with a top handle, y with a bottom one)
\* and an edge handle leaves the other dimension and its position alone; a 100 x 60
\* rectangle at (50, 50) pressed at (150, 110) on bottom-right and moved to (200, 160)
\* is 150 x 110 at (50, 50).
C30_OppositeSideFixed ==
    LET Anchored(i, handle, o) ==
            /\ Includes(handle, "left") => o.x + o.width = i.x + i.width
            /\ Includes(handle, "right") => o.x = i.x
            /\ Includes(handle, "top") => o.y + o.height = i.y + i.height
            /\ Includes(handle, "bottom") => o.y = i.y
            /\ handle \in { "top-center", "bottom-center" } => o.width = i.width /\ o.x = i.x
            /\ handle \in { "middle-left", "middle-right" } => o.height = i.height /\ o.y = i.y
        Resized(i, down) ==
            /\ down.isResizing /\ down.selectedShape = selectedShape
            /\ \A p \in { Pt(0, 0), Pt(55 * Unit, 45 * Unit), Pt(110 * Unit, 90 * Unit) } :
                  LET moved == mousemove(down, p.x, p.y)
                  IN  /\ Anchored(i, down.activeHandle, moved.heap[moved.selectedShape])
                      /\ \A q \in { Pt(0, 0), Pt(110 * Unit, 90 * Unit) } :
                            LET again == mousemove(moved, q.x, q.y)
                            IN  Anchored(i, down.activeHandle, again.heap[again.selectedShape])
        example == [ Cur EXCEPT !.heap = << Rectangle(50 * Unit, 50 * Unit, 100 * Unit,
                                                     60 * Unit, Black, 1) >>,
                                !.shapes = << 1 >>, !.selectedShape = 1 ]
        down == mousedown(example, 150 * Unit, 110 * Unit)
        moved == mousemove(down, 200 * Unit, 160 * Unit)
        up == mouseup(moved, 200 * Unit, 160 * Unit)
    IN  /\ (/\ selectedShape # Null
            /\ heap[selectedShape].type \in { "rectangle", "diamond", "image" }
            /\ heap[selectedShape].angle = << 0 >>
            /\ ~heap[selectedShape].flipH /\ ~heap[selectedShape].flipV)
           => \A k \in 1..8 :
                 Resized(heap[selectedShape],
                         mousedown(Cur, getHandles(heap[selectedShape])[k].x + handleSize \div 2,
                                        getHandles(heap[selectedShape])[k].y + handleSize \div 2))
        /\ down.isResizing /\ down.activeHandle = "bottom-right"
        /\ \A after \in { moved, up } :
              LET o == after.heap[after.selectedShape]
              IN  << o.width, o.height, o.x, o.y >>
                     = << 150 * Unit, 110 * Unit, 50 * Unit, 50 * Unit >>

\* An unrotated, unflipped box is being resized by its middle-right handle: its width
\* has changed, its height and its position are those of the press
C30_Witness ==
    /\ isResizing /\ activeHandle = "middle-right" /\ selectedShape # Null
    /\ LET o == heap[selectedShape]
       IN  /\ o.type \in { "rectangle", "diamond" }
           /\ o.angle = << 0 >> /\ ~o.flipH /\ ~o.flipV
           /\ o.init # << >>
           /\ o.width # o.init[1].width
           /\ o.height = o.init[1].height
           /\ o.x = o.init[1].x /\ o.y = o.init[1].y

(***************************************************************************)
(* Properties of circles, handles and rotation                             *)
(***************************************************************************)
\* C31: while a circle is resized its centre stays where it was at the press, and its
\* radius is max(handleSize, d) with (dx, dy) the pointer minus the centre turned into
\* the frame of the press: d = |dx| for middle-left and middle-right, d = |dy| for
\* top-center and bottom-center, d = (|dx| + |dy|) / 2 for the four corner handles.
C31_CircleResize ==
    LET Radius(i, handle, p, o) ==
            LET q == 0 - i.angle[1]
                localX == p.x - i.x
                localY == p.y - i.y
                dx == localX * Cos(q) - localY * Sin(q)
                dy == localX * Sin(q) + localY * Cos(q)
            IN  /\ o.x = i.x /\ o.y = i.y
                /\ handle \in { "middle-left", "middle-right" } =>
                      o.radius = Max(handleSize, Abs(dx))
                /\ handle \in { "top-center", "bottom-center" } =>
                      o.radius = Max(handleSize, Abs(dy))
                /\ handle \in { "top-left", "top-right", "bottom-left", "bottom-right" } =>
                      2 * o.radius = Max(2 * handleSize, Abs(dx) + Abs(dy))
        Resized(i, down) ==
            /\ down.isResizing /\ down.selectedShape = selectedShape
            /\ \A p \in { Pt(0, 0), Pt(55 * Unit, 45 * Unit), Pt(110 * Unit, 90 * Unit) } :
                  LET moved == mousemove(down, p.x, p.y)
                  IN  Radius(i, down.activeHandle, p, moved.heap[moved.selectedShape])
    IN  (/\ selectedShape # Null
         /\ heap[selectedShape].type = "circle"
         /\ heap[selectedShape].angle # << >>)
        => \A k \in 1..8 :
              Resized(heap[selectedShape],
                      mousedown(Cur, getHandles(heap[selectedShape])[k].x + handleSize \div 2,
                                     getHandles(heap[selectedShape])[k].y + handleSize \div 2))

\* C32 as stated: the first eight handles of an unrotated, unflipped rectangle, diamond
\* or image lie handleSize (8) away from their corner or edge middle, along an axis or
\* in a straight line.
C32_HandlesOffsetByHandleSize ==
    \A ref \in DOMAIN heap : \A type \in { "rectangle", "diamond", "image" } :
        LET o == [ heap[ref] EXCEPT !.type = type ]
            anchors == << Pt(o.x, o.y), Pt(o.x + o.width \div 2, o.y),
                          Pt(o.x + o.width, o.y), Pt(o.x, o.y + o.height \div 2),
                          Pt(o.x + o.width, o.y + o.height \div 2),
                          Pt(o.x, o.y + o.height),
                          Pt(o.x + o.width \div 2, o.y + o.height),
                          Pt(o.x + o.width, o.y + o.height) >>
        IN  (/\ heap[ref].type \in { "rectangle", "diamond", "image" }
             /\ o.angle = << 0 >> /\ ~o.flipH /\ ~o.flipV)
            => \A k \in 1..8 :
                  LET dx == getHandles(o)[k].x - anchors[k].x
                      dy == getHandles(o)[k].y - anchors[k].y
                  IN  \/ Abs(dx) = handleSize
                      \/ Abs(dy) = handleSize
                      \/ dx * dx + dy * dy = handleSize * handleSize

\* C32, amended: getHandles of an unrotated, unflipped rectangle, diamond or image
\* returns nine handles: the eight resize handles top-left, top-center, top-right,
\* middle-left, middle-right, bottom-left, bottom-center, bottom-right, then the
\* rotation handle.  The points of the eight are the corners and edge middles of the
\* shape's box, each moved by handleSize / 2 (4) to the left and upwards, so that the
\* handle square of handleSize is centred on its corner or edge middle; they form an
\* axis-aligned rectangle of exactly the shape's width and height.
C32_HandlesCentred ==
    \A ref \in DOMAIN heap : \A type \in { "rectangle", "diamond", "image" } :
        LET o == [ heap[ref] EXCEPT !.type = type ]
            handles == getHandles(o)
            half == handleSize \div 2
            anchors == << Pt(o.x, o.y), Pt(o.x + o.width \div 2, o.y),
                          Pt(o.x + o.width, o.y), Pt(o.x, o.y + o.height \div 2),
                          Pt(o.x + o.width, o.y + o.height \div 2),
                          Pt(o.x, o.y + o.height),
                          Pt(o.x + o.width \div 2, o.y + o.height),
                          Pt(o.x + o.width, o.y + o.height) >>
        IN  (/\ heap[ref].type \in { "rectangle", "diamond", "image" }
             /\ o.angle = << 0 >> /\ ~o.flipH /\ ~o.flipV)
            => /\ Len(handles) = 9
               /\ [ k \in 1..9 |-> handles[k].type ]
                     = << "top-left", "top-center", "top-right", "middle-left",
                          "middle-right", "bottom-left", "bottom-center", "bottom-right",
                          "rotation" >>
               /\ \A k \in 1..8 :
                     /\ handles[k].x = anchors[k].x - half
                     /\ handles[k].y = anchors[k].y - half
               /\ handles[3].x - handles[1].x = o.width
               /\ handles[8].x - handles[6].x = o.width
               /\ handles[6].y - handles[1].y = o.height
               /\ handles[8].y - handles[3].y = o.height
               /\ handles[1].y = handles[3].y /\ handles[6].y = handles[8].y
               /\ handles[1].x = handles[6].x /\ handles[3].x = handles[8].x

\* A rectangle that was resized (its width is no longer the default) is selected,
\* unrotated and unflipped, and its bottom-right handle square is centred on its corner
C32_Witness ==
    /\ selectedShape # Null
    /\ LET o == heap[selectedShape]
       IN  /\ o.type = "rectangle" /\ o.angle = << 0 >> /\ ~o.flipH /\ ~o.flipV
           /\ o.width # defaultWidth
           /\ getHandles(o)[8].x + handleSize \div 2 = o.x + o.width
           /\ getHandles(o)[8].y + handleSize \div 2 = o.y + o.height

\* C33 as stated: after the 150 x 110 rectangle at (50, 50) is turned by a quarter turn
\* with the rotation handle, its top-center handle is where its middle-right handle was
\* before, to within one canvas unit.
C33_TopCenterAtFormerMiddleRight ==
    LET before == Rectangle(50 * Unit, 50 * Unit, 150 * Unit, 110 * Unit, Black, 1)
        example == [ Cur EXCEPT !.heap = << before >>, !.shapes = << 1 >>,
                                !.selectedShape = 1 ]
        down == mousedown(example, getHandles(before)[9].x + handleSize \div 2,
                                   getHandles(before)[9].y + handleSize \div 2)
        moved == mousemove(down, 200 * Unit, 105 * Unit)
        after == moved.heap[moved.selectedShape]
    IN  /\ after.angle = << 1 >>
        /\ Abs(getHandles(after)[2].x - getHandles(before)[5].x) <= Unit
        /\ Abs(getHandles(after)[2].y - getHandles(before)[5].y) <= Unit

\* C33, amended: a quarter turn (+pi/2) made with the rotation handle adds exactly one
\* quarter turn to the angle and leaves position, width and height unchanged; the
\* top-center handle then lies on the line from the centre to the former place of the
\* middle-right handle, at height / 2 from the centre instead of width / 2.  For the
\* 150 x 110 rectangle at (50, 50), centre (125, 105): top-center is centred on
\* (180, 105), 20 short of the former middle-right at (200, 105).
C33_QuarterTurn ==
    LET Turned(before, down) ==
            LET c == getCenter(before)
                moved == mousemove(down, c.x + before.width \div 2, c.y)
                up == mouseup(moved, c.x + before.width \div 2, c.y)
            IN  /\ down.isRotating /\ down.selectedShape # Null
                /\ \A s \in { moved, up } :
                      LET after == s.heap[s.selectedShape]
                      IN  /\ after.angle = << 1 >>
                          /\ << after.x, after.y, after.width, after.height >>
                                = << before.x, before.y, before.width, before.height >>
                          /\ getHandles(after)[2].x + handleSize \div 2
                                = c.x + before.height \div 2
                          /\ getHandles(after)[2].y + handleSize \div 2 = c.y
                          /\ getHandles(before)[5].x + handleSize \div 2
                                = c.x + before.width \div 2
                          /\ getHandles(before)[5].y + handleSize \div 2 = c.y
        Pressed(s) ==
            mousedown(s, getHandles(s.heap[s.selectedShape])[9].x + handleSize \div 2,
                         getHandles(s.heap[s.selectedShape])[9].y + handleSize \div 2)
        box == Rectangle(50 * Unit, 50 * Unit, 150 * Unit, 110 * Unit, Black, 1)
        example == [ Cur EXCEPT !.heap = << box >>, !.shapes = << 1 >>, !.selectedShape = 1 ]
    IN  /\ (/\ selectedShape # Null
            /\ heap[selectedShape].type \in { "rectangle", "diamond", "image" }
            /\ heap[selectedShape].angle = << 0 >>
            /\ ~heap[selectedShape].flipH /\ ~heap[selectedShape].flipV)
           => Turned(heap[selectedShape], Pressed(Cur))
        /\ Turned(box, Pressed(example))
        /\ getHandles(mousemove(Pressed(example), 200 * Unit, 105 * Unit).heap[1])[2]
              = [ x |-> 176 * Unit, y |-> 101 * Unit, type |-> "top-center" ]
        /\ getHandles(box)[5] = [ x |-> 196 * Unit, y |-> 101 * Unit, type |-> "middle-right" ]

\* A rectangle was turned by a quarter turn with its rotation handle and the turn was
\* committed: the snapshot before holds it unrotated at the same place and size, and
\* its top-center handle is centred height / 2 to the right of its centre
C33_Witness ==
    /\ ~isRotating /\ selectedShape # Null /\ historyIndex = 2 /\ Len(history) = 3
    /\ LET o == heap[selectedShape]
       IN  /\ o.type = "rectangle" /\ o.angle = << 1 >>
           /\ Len(history[2]) = 1 /\ history[2][1].angle = << 0 >>
           /\ << o.x, o.y, o.width, o.height >>
                 = << history[2][1].x, history[2][1].y, history[2][1].width,
                      history[2][1].height >>
           /\ history[3] = Scene(Cur)
           /\ getHandles(o)[2].x + handleSize \div 2 = getCenter(o).x + o.height \div 2
           /\ getHandles(o)[2].y + handleSize \div 2 = getCenter(o).y

(***************************************************************************)
(* Properties of image loading, the selection and the history              *)
(***************************************************************************)
\* C34: when the image element of an ImageShape that is not in the scene (a clone held
\* by a snapshot of the history or of the redo stack, or by the clipboard) finishes
\* loading, with success or with an error, nothing but the load flags of that object
\* changes: scene, selection, history, cursor, redo stack, clipboard and gesture flags
\* are as before; the same holds for an object of the scene; and every ImageShape, in
\* the scene, in a snapshot or in the clipboard, is in exactly one of the states
\* loading, loaded, error.
C34_ImageLoadFrame ==
    LET OneState(o) ==
            IF o.type = "image" THEN o.load \in { "loading", "loaded", "error" }
            ELSE o.load = "none"
        Settled(o, outcome) ==
            o.load = (IF outcome = "load" THEN "loaded" ELSE "error")
    IN  /\ \A ref \in DOMAIN heap : OneState(heap[ref])
        /\ \A k \in 1..Len(history) : \A j \in 1..Len(history[k]) : OneState(history[k][j])
        /\ \A k \in 1..Len(redoStack) : \A j \in 1..Len(redoStack[k]) :
              OneState(redoStack[k][j])
        /\ \A k \in 1..Len(clipboardShape) : OneState(clipboardShape[k])
        /\ \A outcome \in { "load", "error" } :
              /\ \A k \in 1..Len(history) : \A j \in 1..Len(history[k]) :
                    history[k][j].load = "loading" =>
                       LET after == imageElementSettled(Cur, << "history", k, j >>, outcome)
                       IN  /\ Settled(after.history[k][j], outcome)
                           /\ [ after EXCEPT !.history[k][j].load = "loading" ] = Cur
              /\ \A k \in 1..Len(redoStack) : \A j \in 1..Len(redoStack[k]) :
                    redoStack[k][j].load = "loading" =>
                       LET after == imageElementSettled(Cur, << "redoStack", k, j >>, outcome)
                       IN  /\ Settled(after.redoStack[k][j], outcome)
                           /\ [ after EXCEPT !.redoStack[k][j].load = "loading" ] = Cur
              /\ (clipboardShape # << >> /\ clipboardShape[1].load = "loading") =>
                    LET after == imageElementSettled(Cur, << "clipboardShape" >>, outcome)
                    IN  /\ Settled(after.clipboardShape[1], outcome)
                        /\ [ after EXCEPT !.clipboardShape[1].load = "loading" ] = Cur
              /\ \A ref \in DOMAIN heap :
                    heap[ref].load = "loading" =>
                       LET after == imageElementSettled(Cur, << "heap", ref >>, outcome)
                       IN  /\ Settled(after.heap[ref], outcome)
                           /\ [ after EXCEPT !.heap[ref].load = "loading" ] = Cur

\* The scene is empty and nothing is selected; a clone on the redo stack has loaded,
\* the clone in the clipboard has failed, and a clone in the history is still loading
C34_Witness ==
    /\ shapes = << >> /\ selectedShape = Null /\ heap = << >>
    /\ \E k \in 1..Len(redoStack) : \E j \in 1..Len(redoStack[k]) :
          /\ redoStack[k][j].type = "image" /\ redoStack[k][j].load = "loaded"
    /\ clipboardShape # << >> /\ clipboardShape[1].load = "error"
    /\ \E k \in 1..Len(history) : \E j \in 1..Len(history[k]) :
          history[k][j].load = "loading"

\* C35: in every reachable state nothing is selected or the selected shape is an element
\* of the scene, however save requests interleave with undo, redo, delete and paste.
C35_SelectionInScene ==
    selectedShape = Null \/ \E k \in 1..Len(shapes) : shapes[k] = selectedShape

\* C36: whenever no gesture and no text edit is going on, the scene equals the snapshot
\* at the cursor, history[historyIndex], shape for shape and field for field (compared
\* as saveState would store the scene now, that is after clone()).
C36_SceneIsCurrentSnapshot ==
    (~GestureActive(Cur) /\ activeTextInput = << >>)
        => CloneAll(Scene(Cur)) = CloneAll(history[historyIndex + 1])

\* C37: in every reachable state with a non-empty redo stack, redo() followed at once
\* by undo() gives back the scene as it was before the redo (compared after clone(), as
\* both functions rebuild the scene from clones); this also holds after several undos
\* and redos: here in the states of the specification and in those that follow them
\* by one more commit (a colour for the selection) and an 'undo-action' message, and
\* then either a second 'undo-action' and a 'redo-action' message, or a press on a
\* shape with two moves and the pointer leaving the canvas.
C37_RedoThenUndo ==
    LET Inverse(s) ==
            s.redoStack # << >> => CloneAll(Scene(undo(redo(s)))) = CloneAll(Scene(s))
        Undone(s) == undo(undo(colorPickerInput(s, Red)))
        Left(s, p, q) ==
            mouseleave(mousemove(mousemove(mousedown(s, p.x, p.y), q.x, q.y), p.x, p.y))
    IN  /\ Inverse(Cur)
        /\ (~GestureActive(Cur) /\ activeTextInput = << >>)
              => /\ Inverse(Undone(Cur))
                 /\ Inverse(redo(redo(undo(undo(Undone(Cur))))))
                 /\ \A p \in Points : \A q \in Points : Inverse(Left(Undone(Cur), p, q))

\* C38: a flip is one undoable step of its own: after a flip of the selected shape and
\* another committed action (a colour for the selection), one undo() gives the scene as
\* it was right after the flip, the shape still flipped, and a second undo() gives the
\* scene from before the flip (scenes compared after clone()).
C38_FlipIsOneStep ==
    (selectedShape # Null /\ ~GestureActive(Cur) /\ activeTextInput = << >>)
        => \A field \in { "flipH", "flipV" } :
              LET flipped == flipButtonClick(Cur, field)
                  committed == colorPickerInput(flipped, Red)
              IN  /\ CloneAll(Scene(undo(committed))) = CloneAll(Scene(flipped))
                  /\ CloneAll(Scene(undo(undo(committed)))) = CloneAll(Scene(Cur))

\* C39: bringing the selected shape to the front on a press (on one of its handles or
\* on a shape's body) only reorders the scene: the same shapes are in the scene before
\* and after, also when the selection is not an element of the scene.
C39_BringToFrontReorders ==
    LET Same(s) ==
            /\ Len(s.shapes) = Len(shapes)
            /\ { s.shapes[k] : k \in 1..Len(s.shapes) } = { shapes[k] : k \in 1..Len(shapes) }
        handles == getHandles(heap[selectedShape])
        Centre(h) == Pt(h.x + handleSize \div 2, h.y + handleSize \div 2)
    IN  /\ selectedShape # Null
            => /\ Same(bringToFront(Cur))
               /\ \A k \in DOMAIN handles :
                      Same(mousedown(Cur, Centre(handles[k]).x, Centre(handles[k]).y))
        /\ \A p \in Points :
              (currentShapeType # "line" /\ TopmostAt(Cur, p.x, p.y, ShapeTypes) # 0)
                  => Same(mousedown(Cur, p.x, p.y))

\* A selection outside a non-empty scene, and a press on one of its handles that starts
\* a resize or a rotation
C39_Witness ==
    /\ selectedShape # Null
    /\ IndexOf(shapes, selectedShape) = 0
    /\ shapes # << >>
    /\ \E k \in DOMAIN getHandles(heap[selectedShape]) :
          LET h == getHandles(heap[selectedShape])[k]
              pressed == mousedown(Cur, h.x + handleSize \div 2, h.y + handleSize \div 2)
          IN  /\ pressed.isResizing \/ pressed.isRotating
              /\ pressed.shapes = shapes

(***************************************************************************)
(* Properties of the clipboard                                             *)
(***************************************************************************)
\* C40: the clipboard holds a copy of its own. After a copy of the selection, a change
\* of the copied shape (a drag, a resize or a rotation by a press, two moves and a
\* release, a colour, a flip, Delete, undo) leaves the clipboard as it was, and a paste
\* then adds the shape as it was when copied, every property but the id, 10 further
\* right and down; a change of the pasted shape changes neither the clipboard nor the
\* shape that was copied.
C40_ClipboardIndependent ==
    (selectedShape # Null /\ ~GestureActive(Cur) /\ activeTextInput = << >>)
        => LET original == heap[selectedShape]
               copied == handleCopyCanvas(Cur)
               Shifted(o) ==
                   IF o.type = "line"
                   THEN [ o EXCEPT !.x = @ + offsetAmount, !.y = @ + offsetAmount,
                                   !.x1 = @ + offsetAmount, !.y1 = @ + offsetAmount,
                                   !.x2 = @ + offsetAmount, !.y2 = @ + offsetAmount ]
                   ELSE [ o EXCEPT !.x = @ + offsetAmount, !.y = @ + offsetAmount ]
               Presses(s) ==
                   Points \cup
                   { Pt(h.x + handleSize \div 2, h.y + handleSize \div 2) :
                       h \in { getHandles(s.heap[s.selectedShape])[k] :
                                 k \in DOMAIN getHandles(s.heap[s.selectedShape]) } }
               Gesture(s, p, q) ==
                   mouseup(mousemove(mousemove(mousedown(s, p.x, p.y), q.x, q.y),
                                     p.x, p.y), p.x, p.y)
               Changes(s) ==
                   { colorPickerInput(s, Red), flipButtonClick(s, "flipH"),
                     flipButtonClick(s, "flipV"), keydownDelete(s) }
                       \cup { Gesture(s, p, q) :
                                p \in { r \in Presses(s) :
                                          mousedown(s, r.x, r.y).selectedShape
                                              = s.selectedShape },
                                q \in Points }
               NewShape(s) == handlePasteCanvas(s).heap[handlePasteCanvas(s).selectedShape]
               pasted == handlePasteCanvas(copied)
           IN  /\ \A c \in Changes(copied) \cup { undo(copied) } :
                     /\ c.clipboardShape = copied.clipboardShape
                     /\ [ NewShape(c) EXCEPT !.id = original.id ] = Shifted(original)
               /\ \A c \in Changes(pasted) :
                     /\ c.clipboardShape = copied.clipboardShape
                     /\ selectedShape \in DOMAIN c.heap
                     /\ c.heap[selectedShape] = original

====
